---- MODULE Spec2Model ----
(***************************************************************************)
(* DequeStore (packages/storage/plus/src/deque_store.rs) and AppendStore   *)
(* (packages/storage/borsh/src/append_store.rs) over a byte-keyed storage  *)
(* substrate.  Every handler is an operator from (storage, handle) to      *)
(* (storage, handle, result), translated statement by statement; the       *)
(* actions apply the handlers to the state.  A definition commented as a   *)
(* variant of a handler step is that step with one fault put in; the       *)
(* properties are run against each to show that they tell the difference.  *)
(***************************************************************************)
EXTENDS Integers, Sequences, FiniteSets, TLC

VARIABLES
    storage,   \* the substrate: a function from keys (byte strings) to values (byte strings)
    dq,        \* the DequeStore handle: namespace, prefix and the two cached counters
    ap,        \* the AppendStore handle: namespace, prefix and the cached length
    dq_abs,    \* ghost: the plain sequence the deque operations are replayed on
    ap_abs,    \* ghost: the plain sequence the append store operations are replayed on
    driven,    \* what the caller drives through the substrate: "dq", "ap", or one of
               \* them beside a second handle, "dq_two" or "ap_two"
    second,    \* the second handle: on the same namespace, or derived with add_suffix
    cursor     \* the iterator the caller holds ("dq_iter", "ap_iter"): start and end

vars == <<storage, dq, ap, dq_abs, ap_abs, driven, second, cursor>>

(***************************************************************************)
(* Bounds of the model.                                                    *)
(***************************************************************************)
\* the number of element slots a run may occupy in the substrate: it caps the
\* length and, as no operation deletes a slot, how far the offset drifts
MaxSlots == 5
\* the number of elements of a store an iterator is taken of
MaxIterated == 3
\* the number of keys, counters included, two handles may occupy in the substrate
MaxKeys == 5
\* the items pushed and stored
Values == {1, 2}

(***************************************************************************)
(* u32 arithmetic and byte strings.  TLC's integers are 32-bit signed, so  *)
(* a u32 is held as the integer with the same 32-bit pattern: 0 .. 2^31-1  *)
(* are themselves, and 2^31 .. 2^32-1 are held as -2^31 .. -1 (2^32 - 1 is *)
(* -1).  Addition and subtraction wrap at 32 bits and the order is the     *)
(* unsigned one, so every operator below is the u32 operator of its name.  *)
(***************************************************************************)
\* the largest pattern held as itself, 2^31 - 1
MaxI32 == 2147483647
MinI32 == -MaxI32 - 1
\* u32::MAX, 2^32 - 1
U32_MAX == -1

\* unsigned order on the patterns
u32_lt(a, b) == IF (a >= 0) = (b >= 0) THEN a < b ELSE a >= 0
u32_ge(a, b) == ~u32_lt(a, b)
u32_gt(a, b) == u32_lt(b, a)

\* a + b that stops at 2^32 - 1
wrapping_add_saturating(a, b) ==
    IF (a < 0 /\ b < 0) \/ ((a < 0) # (b < 0) /\ a + b >= 0) THEN U32_MAX
    ELSE IF a >= 0 /\ b >= 0 /\ a > MaxI32 - b THEN (a - MaxI32 - 1) + (b - MaxI32 - 1)
    ELSE a + b
\* a + b mod 2^32 (overflowing_add(..).0)
wrapping_add(a, b) ==
    IF a >= 0 /\ b >= 0 /\ a > MaxI32 - b THEN (a - MaxI32 - 1) + (b - MaxI32 - 1)
    ELSE IF a < 0 /\ b < 0 /\ a < MinI32 - b THEN (a - MinI32) + (b - MinI32)
    ELSE a + b
\* a - b mod 2^32 (overflowing_sub(..).0)
wrapping_sub(a, b) ==
    IF a >= 0 /\ b < 0 /\ a > MaxI32 + b THEN (a - MaxI32 - 1) - (b - MinI32)
    ELSE IF a < 0 /\ b >= 0 /\ a < MinI32 + b THEN (a - MinI32) - (b - MaxI32 - 1)
    ELSE a - b
\* u32::checked_sub: a one-element sequence, or the empty one for None
checked_sub(a, b) == IF u32_ge(a, b) THEN <<wrapping_sub(a, b)>> ELSE <<>>
\* u32::saturating_add and saturating_sub
saturating_add(a, b) ==
    IF u32_lt(wrapping_add(a, b), a) THEN U32_MAX ELSE wrapping_add(a, b)
saturating_sub(a, b) == IF u32_lt(a, b) THEN 0 ELSE wrapping_sub(a, b)

\* the four bytes of the pattern, most significant first
to_be_bytes(n) ==
    << (n \div 16777216) % 256, (n \div 65536) % 256, (n \div 256) % 256, n % 256 >>
from_be_bytes(b) ==
    (IF b[1] >= 128 THEN b[1] - 256 ELSE b[1]) * 16777216 + b[2] * 65536 + b[3] * 256 + b[4]

\* b"len", b"off", "test"
LEN_KEY == <<108, 101, 110>>
OFFSET_KEY == <<111, 102, 102>>
TestNamespace == <<116, 101, 115, 116>>

(***************************************************************************)
(* Option and StdResult.                                                   *)
(***************************************************************************)
None == [some |-> FALSE, v |-> 0]
Some(x) == [some |-> TRUE, v |-> x]

\* Ok(v) carries <<v>>, Ok(()) carries <<>>
Ok(v) == [ok |-> TRUE, val |-> v, err |-> "none"]
Err(e) == [ok |-> FALSE, val |-> <<>>, err |-> e]

(***************************************************************************)
(* The substrate: exact-key get and set.                                   *)
(***************************************************************************)
storage_get(sto, key) == IF key \in DOMAIN sto THEN Some(sto[key]) ELSE None
storage_set(sto, key, value) ==
    [k \in DOMAIN sto \cup {key} |-> IF k = key THEN value ELSE sto[k]]
\* Storage::remove, which no store operation calls
storage_remove(sto, key) == [k \in DOMAIN sto \ {key} |-> sto[k]]

(***************************************************************************)
(* Serialization.  DequeStore's default is Json: an i32 is its decimal     *)
(* text.  AppendStore uses Borsh: an i32 is four little-endian bytes.      *)
(***************************************************************************)
RECURSIVE decimal_digits(_)
decimal_digits(n) ==
    IF n < 10 THEN <<48 + n>> ELSE Append(decimal_digits(n \div 10), 48 + (n % 10))

\* an item Ser::serialize returns an error for
Unserializable == MinI32
Json_serialize(item) ==
    IF item = Unserializable THEN Err("serialize_err")
    ELSE IF item < 0 THEN Ok(<<45>> \o decimal_digits(-item)) ELSE Ok(decimal_digits(item))

RECURSIVE parse_digits(_, _)
parse_digits(bytes, acc) ==
    IF bytes = <<>> THEN acc
    ELSE parse_digits(Tail(bytes), acc * 10 + (Head(bytes) - 48))

is_digits(bytes) == bytes # <<>> /\ \A i \in DOMAIN bytes : bytes[i] \in 48..57

Json_deserialize(bytes) ==
    IF is_digits(bytes) THEN Ok(<<parse_digits(bytes, 0)>>)
    ELSE IF bytes # <<>> /\ bytes[1] = 45 /\ is_digits(Tail(bytes))
         THEN Ok(<<-parse_digits(Tail(bytes), 0)>>)
         ELSE Err("parse")

Borsh_serialize(item) ==
    Ok(<< item % 256, (item \div 256) % 256, (item \div 65536) % 256,
          (item \div 16777216) % 256 >>)

Borsh_deserialize(bytes) ==
    IF Len(bytes) # 4 THEN Err("parse")
    ELSE Ok(<< bytes[1] + bytes[2] * 256 + bytes[3] * 65536
               + (IF bytes[4] >= 128 THEN bytes[4] - 256 ELSE bytes[4]) * 16777216 >>)

(***************************************************************************)
(* The outcome of a handler: the substrate and the handle as it leaves     *)
(* them, and what it returns.  A handler is written as a chain of          *)
(* operators, one per statement that can return early; each passes the     *)
(* outcome so far to the next.                                             *)
(***************************************************************************)
Out(sto, h, res) == [sto |-> sto, h |-> h, res |-> res]
\* the outcome c, returning res instead
Returning(c, res) == [sto |-> c.sto, h |-> c.h, res |-> res]

(***************************************************************************)
(* DequeStore.                                                             *)
(***************************************************************************)
\* DequeStore::new(prefix)
DequeStore_new(prefix) ==
    [namespace |-> prefix, prefix |-> None, length |-> None, offset |-> None]

\* add_suffix(suffix): the prefix (or else the namespace) followed by the suffix
\* clone(): the namespace and prefix, the caches empty
DequeStore_clone(h) == [h EXCEPT !.length = None, !.offset = None]

\* add_suffix that leaves the suffix out
DequeStore_add_suffix_dropped(h, suffix) ==
    [namespace |-> h.namespace,
     prefix |-> Some(IF h.prefix.some THEN h.prefix.v ELSE h.namespace),
     length |-> None, offset |-> None]
DequeStore_add_suffix(h, suffix) ==
    [namespace |-> h.namespace,
     prefix |-> Some((IF h.prefix.some THEN h.prefix.v ELSE h.namespace) \o suffix),
     length |-> None, offset |-> None]

dq_as_slice(h) == IF h.prefix.some THEN h.prefix.v ELSE h.namespace

\* _get_u32 that fails when the key is absent
dq_parse_u32_absent_fails(got) ==
    IF got.some
    THEN IF Len(got.v) # 4 THEN Err("parse") ELSE Ok(<<from_be_bytes(got.v)>>)
    ELSE Err("not_found")
dq_parse_u32(got) ==
    IF got.some
    THEN IF Len(got.v) # 4 THEN Err("parse") ELSE Ok(<<from_be_bytes(got.v)>>)
    ELSE Ok(<<0>>)
dq_get_u32(sto, h, key) == dq_parse_u32(storage_get(sto, dq_as_slice(h) \o key))

\* a miss reads the substrate and hydrates the cache
dq_hydrate_len(sto, h, r) ==
    IF r.ok THEN Out(sto, [h EXCEPT !.length = Some(r.val[1])], r) ELSE Out(sto, h, r)
\* get_len that reads the substrate whatever the cache holds
dq_get_len_reread(sto, h) == dq_hydrate_len(sto, h, dq_get_u32(sto, h, LEN_KEY))
dq_get_len(sto, h) ==
    IF h.length.some THEN Out(sto, h, Ok(<<h.length.v>>))
    ELSE dq_hydrate_len(sto, h, dq_get_u32(sto, h, LEN_KEY))

dq_hydrate_off(sto, h, r) ==
    IF r.ok THEN Out(sto, [h EXCEPT !.offset = Some(r.val[1])], r) ELSE Out(sto, h, r)
dq_get_off(sto, h) ==
    IF h.offset.some THEN Out(sto, h, Ok(<<h.offset.v>>))
    ELSE dq_hydrate_off(sto, h, dq_get_u32(sto, h, OFFSET_KEY))

\* is_empty(): Ok(get_len()? == 0)
dq_is_empty_of(l) == IF ~l.res.ok THEN l ELSE Returning(l, Ok(<<l.res.val[1] = 0>>))
dq_is_empty(sto, h) == dq_is_empty_of(dq_get_len(sto, h))

\* _set_u32 that writes nothing
dq_set_u32_unwritten(sto, h, key, num) == sto
dq_set_u32(sto, h, key, num) == storage_set(sto, dq_as_slice(h) \o key, to_be_bytes(num))

\* set_len that writes the key and leaves the cache
dq_set_len_uncached(sto, h, len) == Out(dq_set_u32(sto, h, LEN_KEY, len), h, Ok(<<>>))
dq_set_len(sto, h, len) ==
    Out(dq_set_u32(sto, h, LEN_KEY, len), [h EXCEPT !.length = Some(len)], Ok(<<>>))

\* set_off that writes the key and leaves the cache
dq_set_off_uncached(sto, h, off) == Out(dq_set_u32(sto, h, OFFSET_KEY, off), h, Ok(<<>>))
dq_set_off(sto, h, off) ==
    Out(dq_set_u32(sto, h, OFFSET_KEY, off), [h EXCEPT !.offset = Some(off)], Ok(<<>>))

dq_decode(got) == IF got.some THEN Json_deserialize(got.v) ELSE Err("not_found")
dq_load_impl(sto, h, key) == dq_decode(storage_get(sto, dq_as_slice(h) \o key))

dq_store(sto, h, key, ser) ==
    IF ser.ok THEN Out(storage_set(sto, dq_as_slice(h) \o key, ser.val), h, Ok(<<>>))
    ELSE Out(sto, h, Err(ser.err))
dq_save_impl(sto, h, key, value) == dq_store(sto, h, key, Json_serialize(value))

\* get_offset_pos that leaves the offset out
dq_add_offset_ignored(o, pos) ==
    IF o.res.ok THEN Returning(o, Ok(<<pos>>)) ELSE o
\* add the offset to the pos
dq_add_offset(o, pos) ==
    IF o.res.ok THEN Returning(o, Ok(<<wrapping_add(pos, o.res.val[1])>>)) ELSE o
\* get_offset_pos that counts the positions down from the offset
dq_get_offset_pos_mirrored(sto, h, pos) ==
    dq_add_offset(dq_get_off(sto, h), wrapping_sub(0, pos))
dq_get_offset_pos(sto, h, pos) == dq_add_offset(dq_get_off(sto, h), pos)

dq_load_at(p) ==
    IF p.res.ok THEN Returning(p, dq_load_impl(p.sto, p.h, to_be_bytes(p.res.val[1]))) ELSE p
dq_get_at_unchecked(sto, h, pos) == dq_load_at(dq_get_offset_pos(sto, h, pos))

\* get_at with the bounds test pos > len
dq_get_at_checked_inclusive(l, pos) ==
    IF ~l.res.ok THEN l
    ELSE IF u32_gt(pos, l.res.val[1]) THEN Returning(l, Err("out_of_bounds"))
    ELSE dq_get_at_unchecked(l.sto, l.h, pos)
dq_get_at_checked(l, pos) ==
    IF ~l.res.ok THEN l
    ELSE IF u32_ge(pos, l.res.val[1]) THEN Returning(l, Err("out_of_bounds"))
    ELSE dq_get_at_unchecked(l.sto, l.h, pos)
dq_get_at(sto, h, pos) == dq_get_at_checked(dq_get_len(sto, h), pos)

dq_save_at(p, item) ==
    IF p.res.ok THEN dq_save_impl(p.sto, p.h, to_be_bytes(p.res.val[1]), item) ELSE p
dq_set_at_unchecked(sto, h, pos, item) == dq_save_at(dq_get_offset_pos(sto, h, pos), item)

\* clear that leaves the offset as it was
dq_clear_off_kept(a) == a
dq_clear_off(a) == dq_set_off(a.sto, a.h, 0)
dq_clear(sto, h) == dq_clear_off(dq_set_len(sto, h, 0))

\* set_at with the bounds test pos > len
dq_set_at_checked_inclusive(l, pos, item) ==
    IF ~l.res.ok THEN l
    ELSE IF u32_gt(pos, l.res.val[1]) THEN Returning(l, Err("out_of_bounds"))
    ELSE dq_set_at_unchecked(l.sto, l.h, pos, item)
dq_set_at_checked(l, pos, item) ==
    IF ~l.res.ok THEN l
    ELSE IF u32_ge(pos, l.res.val[1]) THEN Returning(l, Err("out_of_bounds"))
    ELSE dq_set_at_unchecked(l.sto, l.h, pos, item)
dq_set_at(sto, h, pos, item) == dq_set_at_checked(dq_get_len(sto, h), pos, item)

\* push_back that leaves the length as it was
dq_push_back_len_kept(w, len) ==
    IF ~w.res.ok THEN w ELSE dq_set_len(w.sto, w.h, len)
\* push_back: write at len, then set_len(len + 1)
dq_push_back_len(w, len) ==
    IF ~w.res.ok THEN w ELSE dq_set_len(w.sto, w.h, wrapping_add(len, 1))
dq_push_back_write(l, item) ==
    IF ~l.res.ok THEN l
    ELSE dq_push_back_len(dq_set_at_unchecked(l.sto, l.h, l.res.val[1], item), l.res.val[1])
dq_push_back(sto, h, item) == dq_push_back_write(dq_get_len(sto, h), item)

\* push_front: set_off(off - 1), write at 0, then set_len(len + 1)
\* push_front that leaves the length as it was
dq_push_front_len_kept(w, len) ==
    IF ~w.res.ok THEN w ELSE dq_set_len(w.sto, w.h, len)
dq_push_front_len(w, len) ==
    IF ~w.res.ok THEN w ELSE dq_set_len(w.sto, w.h, wrapping_add(len, 1))
\* push_front that writes the item past the tail as well
dq_push_front_write_both_ends(so, item, len) ==
    dq_push_front_len(
        dq_set_at_unchecked(dq_set_at_unchecked(so.sto, so.h, 0, item).sto, so.h,
                            wrapping_add(len, 1), item), len)
dq_push_front_write(so, item, len) ==
    dq_push_front_len(dq_set_at_unchecked(so.sto, so.h, 0, item), len)
\* push_front whose offset stops at 0 instead of wrapping
dq_push_front_off_saturating(off) == saturating_sub(off, 1)
\* the offset push_front moves to
dq_push_front_off(off) == wrapping_sub(off, 1)
dq_push_front_move(l, off, item) ==
    IF ~l.res.ok THEN l
    ELSE dq_push_front_write(dq_set_off(l.sto, l.h, dq_push_front_off(off)), item, l.res.val[1])
dq_push_front_read(o, item) ==
    IF ~o.res.ok THEN o ELSE dq_push_front_move(dq_get_len(o.sto, o.h), o.res.val[1], item)
dq_push_front(sto, h, item) == dq_push_front_read(dq_get_off(sto, h), item)

\* pop_back that removes the slot it read from the substrate
dq_pop_back_len_slot_removed(item, len) ==
    Returning(dq_set_len(storage_remove(item.sto,
                             dq_as_slice(item.h)
                                 \o to_be_bytes(dq_get_offset_pos(item.sto, item.h, len).res.val[1])),
                         item.h, len), item.res)
\* pop_back: read at len - 1, set_len(len - 1), return what was read
dq_pop_back_len(item, len) == Returning(dq_set_len(item.sto, item.h, len), item.res)
dq_pop_back_read(l, may) ==
    IF may = <<>> THEN Returning(l, Err("empty"))
    ELSE dq_pop_back_len(dq_get_at_unchecked(l.sto, l.h, may[1]), may[1])
\* pop_back with a wrapping len - 1 for the checked one
dq_pop_back_wrapping(l) ==
    IF ~l.res.ok THEN l ELSE dq_pop_back_read(l, <<wrapping_sub(l.res.val[1], 1)>>)
dq_pop_back_checked(l) ==
    IF ~l.res.ok THEN l ELSE dq_pop_back_read(l, checked_sub(l.res.val[1], 1))
dq_pop_back(sto, h) == dq_pop_back_checked(dq_get_len(sto, h))

\* pop_front that leaves the offset as it was
dq_pop_front_off_kept(n, off, res) == Returning(dq_set_off(n.sto, n.h, off), res)
\* pop_front: read at 0, set_len(len - 1), set_off(off + 1), return what was read
dq_pop_front_off(n, off, res) == Returning(dq_set_off(n.sto, n.h, wrapping_add(off, 1)), res)
dq_pop_front_len(item, len, off) ==
    dq_pop_front_off(dq_set_len(item.sto, item.h, len), off, item.res)
dq_pop_front_item(o, len) ==
    IF ~o.res.ok THEN o
    ELSE dq_pop_front_len(dq_get_at_unchecked(o.sto, o.h, 0), len, o.res.val[1])
dq_pop_front_read(l, may) ==
    IF may = <<>> THEN Returning(l, Err("empty"))
    ELSE dq_pop_front_item(dq_get_off(l.sto, l.h), may[1])
dq_pop_front_checked(l) ==
    IF ~l.res.ok THEN l ELSE dq_pop_front_read(l, checked_sub(l.res.val[1], 1))
dq_pop_front(sto, h) == dq_pop_front_checked(dq_get_len(sto, h))

\* for i in pos..(len - 1): slot i receives the element of slot i + 1
RECURSIVE dq_shift_toward_tail(_, _, _, _)
dq_shift_tail_next(w, i, stop) ==
    IF ~w.res.ok THEN w ELSE dq_shift_toward_tail(w.sto, w.h, wrapping_add(i, 1), stop)
\* the tail-ward loop writing each element back where it was read
dq_shift_tail_write_in_place(e, i, stop) ==
    IF ~e.res.ok THEN e
    ELSE dq_shift_tail_next(
             dq_set_at_unchecked(e.sto, e.h, wrapping_add(i, 1), e.res.val[1]), i, stop)
dq_shift_tail_write(e, i, stop) ==
    IF ~e.res.ok THEN e
    ELSE dq_shift_tail_next(dq_set_at_unchecked(e.sto, e.h, i, e.res.val[1]), i, stop)
dq_shift_toward_tail(sto, h, i, stop) ==
    IF u32_ge(i, stop) THEN Out(sto, h, Ok(<<>>))
    ELSE dq_shift_tail_write(dq_get_at_unchecked(sto, h, wrapping_add(i, 1)), i, stop)

\* for i in (0..pos).rev(): slot i + 1 receives the element of slot i;
\* n iterations are left, the next one is i = n - 1
RECURSIVE dq_shift_toward_head(_, _, _)
dq_shift_head_next(w, i) ==
    IF ~w.res.ok THEN w ELSE dq_shift_toward_head(w.sto, w.h, i)
dq_shift_head_write(e, i) ==
    IF ~e.res.ok THEN e
    ELSE dq_shift_head_next(dq_set_at_unchecked(e.sto, e.h, wrapping_add(i, 1), e.res.val[1]), i)
dq_shift_toward_head(sto, h, n) ==
    IF n = 0 THEN Out(sto, h, Ok(<<>>))
    ELSE dq_shift_head_write(dq_get_at_unchecked(sto, h, n - 1), n - 1)

\* the direction test with <= for <
dq_closer_to_tail_or_tied(len, pos) == ~u32_lt(pos, wrapping_sub(len, pos))
\* the direction test of remove: to_tail < pos, with to_tail = len - pos
dq_closer_to_tail(len, pos) == u32_lt(wrapping_sub(len, pos), pos)

dq_remove_len(c, len, res) == Returning(dq_set_len(c.sto, c.h, wrapping_sub(len, 1)), res)
dq_remove_tail_done(s, len, res) ==
    IF ~s.res.ok THEN s ELSE dq_remove_len(s, len, res)
\* the head-ward branch without its set_off
dq_remove_head_done_offset_kept(s, off, len, res) ==
    IF ~s.res.ok THEN s ELSE dq_remove_len(s, len, res)
dq_remove_head_done(s, off, len, res) ==
    IF ~s.res.ok THEN s
    ELSE dq_remove_len(dq_set_off(s.sto, s.h, wrapping_add(off, 1)), len, res)
\* remove that shifts toward the head whatever the position
dq_remove_shift_headward(item, off, len, pos) ==
    dq_remove_head_done(dq_shift_toward_head(item.sto, item.h, pos), off, len, item.res)
dq_remove_shift(item, off, len, pos) ==
    IF dq_closer_to_tail(len, pos)
    THEN dq_remove_tail_done(
             dq_shift_toward_tail(item.sto, item.h, pos, wrapping_sub(len, 1)), len, item.res)
    ELSE dq_remove_head_done(dq_shift_toward_head(item.sto, item.h, pos), off, len, item.res)
dq_remove_checked(l, off, pos) ==
    IF ~l.res.ok THEN l
    ELSE IF u32_ge(pos, l.res.val[1]) THEN Returning(l, Err("out_of_bounds"))
    ELSE dq_remove_shift(dq_get_at_unchecked(l.sto, l.h, pos), off, l.res.val[1], pos)
dq_remove_read(o, pos) ==
    IF ~o.res.ok THEN o ELSE dq_remove_checked(dq_get_len(o.sto, o.h), o.res.val[1], pos)
dq_remove(sto, h, pos) == dq_remove_read(dq_get_off(sto, h), pos)

\* iter(): a cursor over [0, len)
dq_iter_new(l) ==
    IF ~l.res.ok THEN l ELSE Returning(l, Ok(<<[start |-> 0, end |-> l.res.val[1]]>>))
dq_iter(sto, h) == dq_iter_new(dq_get_len(sto, h))

\* DequeStoreIter::next: None is the empty sequence, Some(r) is <<r>>
dq_iter_yield(g, it) ==
    [sto |-> g.sto, h |-> g.h, it |-> [it EXCEPT !.start = wrapping_add(it.start, 1)],
     item |-> <<g.res>>]
dq_iter_next(sto, h, it) ==
    IF u32_ge(it.start, it.end) THEN [sto |-> sto, h |-> h, it |-> it, item |-> <<>>]
    ELSE dq_iter_yield(dq_get_at(sto, h, it.start), it)

\* next() until None: the results yielded, front to back
RECURSIVE dq_drain(_, _, _)
dq_drain_rest(n) ==
    IF n.item = <<>> THEN <<>> ELSE <<n.item[1]>> \o dq_drain(n.sto, n.h, n.it)
dq_drain(sto, h, it) == dq_drain_rest(dq_iter_next(sto, h, it))

\* DequeStoreIter::next_back
dq_iter_yield_back(g, it) == [sto |-> g.sto, h |-> g.h, it |-> it, item |-> <<g.res>>]
dq_iter_retreat(sto, h, it) == dq_iter_yield_back(dq_get_at(sto, h, it.end), it)
\* next_back that reads at end before moving it
dq_iter_next_back_undecremented(sto, h, it) ==
    IF u32_ge(it.start, it.end) THEN [sto |-> sto, h |-> h, it |-> it, item |-> <<>>]
    ELSE dq_iter_yield_back(dq_get_at(sto, h, it.end),
                            [it EXCEPT !.end = wrapping_sub(it.end, 1)])
dq_iter_next_back(sto, h, it) ==
    IF u32_ge(it.start, it.end) THEN [sto |-> sto, h |-> h, it |-> it, item |-> <<>>]
    ELSE dq_iter_retreat(sto, h, [it EXCEPT !.end = wrapping_sub(it.end, 1)])

\* DequeStoreIter::nth and nth_back; n is `n as u32`, the low 32 bits of the usize
dq_iter_nth(sto, h, it, n) ==
    dq_iter_next(sto, h, [it EXCEPT !.start = saturating_add(it.start, n)])
dq_iter_nth_back(sto, h, it, n) ==
    dq_iter_next_back(sto, h, [it EXCEPT !.end = saturating_sub(it.end, n)])

\* DequeStoreIter::size_hint: end - start in u32, which with overflow checks
\* panics when start is past end and without them wraps
dq_iter_size_hint(it, checks) ==
    IF checks /\ u32_lt(it.end, it.start) THEN Err("panic")
    ELSE Ok(<<wrapping_sub(it.end, it.start)>>)

(***************************************************************************)
(* AppendStore.                                                            *)
(***************************************************************************)
\* AppendStore::new(prefix)
AppendStore_new(prefix) == [namespace |-> prefix, prefix |-> None, length |-> None]

AppendStore_clone(h) == [h EXCEPT !.length = None]

AppendStore_add_suffix(h, suffix) ==
    [namespace |-> h.namespace,
     prefix |-> Some((IF h.prefix.some THEN h.prefix.v ELSE h.namespace) \o suffix),
     length |-> None]

ap_as_slice(h) == IF h.prefix.some THEN h.prefix.v ELSE h.namespace

ap_hydrate_len(sto, h, got) ==
    IF got.some
    THEN IF Len(got.v) # 4 THEN Out(sto, h, Err("parse"))
         ELSE Out(sto, [h EXCEPT !.length = Some(from_be_bytes(got.v))],
                  Ok(<<from_be_bytes(got.v)>>))
    ELSE Out(sto, [h EXCEPT !.length = Some(0)], Ok(<<0>>))
\* get_len that reads the substrate whatever the cache holds
ap_get_len_reread(sto, h) == ap_hydrate_len(sto, h, storage_get(sto, ap_as_slice(h) \o LEN_KEY))
ap_get_len(sto, h) ==
    IF h.length.some THEN Out(sto, h, Ok(<<h.length.v>>))
    ELSE ap_hydrate_len(sto, h, storage_get(sto, ap_as_slice(h) \o LEN_KEY))

ap_is_empty_of(l) == IF ~l.res.ok THEN l ELSE Returning(l, Ok(<<l.res.val[1] = 0>>))
ap_is_empty(sto, h) == ap_is_empty_of(ap_get_len(sto, h))

ap_decode(got) == IF got.some THEN Borsh_deserialize(got.v) ELSE Err("not_found")
ap_load_impl(sto, h, key) == ap_decode(storage_get(sto, ap_as_slice(h) \o key))

ap_store(sto, h, key, ser) ==
    IF ser.ok THEN Out(storage_set(sto, ap_as_slice(h) \o key, ser.val), h, Ok(<<>>))
    ELSE Out(sto, h, Err(ser.err))
ap_save_impl(sto, h, key, value) == ap_store(sto, h, key, Borsh_serialize(value))

ap_get_at_unchecked(sto, h, pos) == Out(sto, h, ap_load_impl(sto, h, to_be_bytes(pos)))

\* the bounds test of AppendStore::get_at
ap_get_at_out_of_bounds(pos, len) == u32_gt(pos, len)

ap_get_at_checked(l, pos) ==
    IF ~l.res.ok THEN l
    ELSE IF ap_get_at_out_of_bounds(pos, l.res.val[1]) THEN Returning(l, Err("out_of_bounds"))
    ELSE ap_get_at_unchecked(l.sto, l.h, pos)
ap_get_at(sto, h, pos) == ap_get_at_checked(ap_get_len(sto, h), pos)

ap_set_len(sto, h, len) ==
    Out(storage_set(sto, ap_as_slice(h) \o LEN_KEY, to_be_bytes(len)),
        [h EXCEPT !.length = Some(len)], Ok(<<>>))

ap_clear(sto, h) == ap_set_len(sto, h, 0)

ap_set_at_unchecked(sto, h, pos, item) == ap_save_impl(sto, h, to_be_bytes(pos), item)

ap_set_at_checked(l, pos, item) ==
    IF ~l.res.ok THEN l
    ELSE IF u32_ge(pos, l.res.val[1]) THEN Returning(l, Err("out_of_bounds"))
    ELSE ap_set_at_unchecked(l.sto, l.h, pos, item)
ap_set_at(sto, h, pos, item) == ap_set_at_checked(ap_get_len(sto, h), pos, item)

\* push: write at len, then set_len(len + 1)
ap_push_len(w, len) ==
    IF ~w.res.ok THEN w ELSE ap_set_len(w.sto, w.h, wrapping_add(len, 1))
ap_push_write(l, item) ==
    IF ~l.res.ok THEN l
    ELSE ap_push_len(ap_set_at_unchecked(l.sto, l.h, l.res.val[1], item), l.res.val[1])
ap_push(sto, h, item) == ap_push_write(ap_get_len(sto, h), item)

\* pop: read at len - 1, set_len(len - 1), return what was read
ap_pop_len(item, len) == Returning(ap_set_len(item.sto, item.h, len), item.res)
ap_pop_read(l, may) ==
    IF may = <<>> THEN Returning(l, Err("empty"))
    ELSE ap_pop_len(ap_get_at_unchecked(l.sto, l.h, may[1]), may[1])
ap_pop_checked(l) ==
    IF ~l.res.ok THEN l ELSE ap_pop_read(l, checked_sub(l.res.val[1], 1))
ap_pop(sto, h) == ap_pop_checked(ap_get_len(sto, h))

\* for i in pos..(len - 1): slot i receives the element of slot i + 1
RECURSIVE ap_shift(_, _, _, _)
ap_shift_next(w, i, stop) ==
    IF ~w.res.ok THEN w ELSE ap_shift(w.sto, w.h, wrapping_add(i, 1), stop)
\* shift step that writes the element back where it was read
ap_shift_write_in_place(e, i, stop) ==
    IF ~e.res.ok THEN e
    ELSE ap_shift_next(ap_set_at_unchecked(e.sto, e.h, wrapping_add(i, 1), e.res.val[1]), i, stop)
ap_shift_write(e, i, stop) ==
    IF ~e.res.ok THEN e
    ELSE ap_shift_next(ap_set_at_unchecked(e.sto, e.h, i, e.res.val[1]), i, stop)
ap_shift(sto, h, i, stop) ==
    IF u32_ge(i, stop) THEN Out(sto, h, Ok(<<>>))
    ELSE ap_shift_write(ap_get_at_unchecked(sto, h, wrapping_add(i, 1)), i, stop)

ap_remove_done(s, len, res) ==
    IF ~s.res.ok THEN s ELSE Returning(ap_set_len(s.sto, s.h, wrapping_sub(len, 1)), res)
ap_remove_shift(item, len, pos) ==
    ap_remove_done(ap_shift(item.sto, item.h, pos, wrapping_sub(len, 1)), len, item.res)
ap_remove_checked(l, pos) ==
    IF ~l.res.ok THEN l
    ELSE IF u32_ge(pos, l.res.val[1]) THEN Returning(l, Err("out_of_bounds"))
    ELSE ap_remove_shift(ap_get_at_unchecked(l.sto, l.h, pos), l.res.val[1], pos)
ap_remove(sto, h, pos) == ap_remove_checked(ap_get_len(sto, h), pos)

\* iter(): a cursor over [0, len)
ap_iter_new(l) ==
    IF ~l.res.ok THEN l ELSE Returning(l, Ok(<<[start |-> 0, end |-> l.res.val[1]]>>))
ap_iter(sto, h) == ap_iter_new(ap_get_len(sto, h))

\* AppendStoreIter::next and next_back
ap_iter_yield(g, it) ==
    [sto |-> g.sto, h |-> g.h, it |-> [it EXCEPT !.start = wrapping_add(it.start, 1)],
     item |-> <<g.res>>]
ap_iter_next(sto, h, it) ==
    IF u32_ge(it.start, it.end) THEN [sto |-> sto, h |-> h, it |-> it, item |-> <<>>]
    ELSE ap_iter_yield(ap_get_at(sto, h, it.start), it)
ap_iter_yield_back(g, it) == [sto |-> g.sto, h |-> g.h, it |-> it, item |-> <<g.res>>]
ap_iter_retreat(sto, h, it) == ap_iter_yield_back(ap_get_at(sto, h, it.end), it)
ap_iter_next_back(sto, h, it) ==
    IF u32_ge(it.start, it.end) THEN [sto |-> sto, h |-> h, it |-> it, item |-> <<>>]
    ELSE ap_iter_retreat(sto, h, [it EXCEPT !.end = wrapping_sub(it.end, 1)])

\* AppendStoreIter::nth and nth_back
ap_iter_nth(sto, h, it, n) ==
    ap_iter_next(sto, h, [it EXCEPT !.start = saturating_add(it.start, n)])
ap_iter_nth_back(sto, h, it, n) ==
    ap_iter_next_back(sto, h, [it EXCEPT !.end = saturating_sub(it.end, n)])

ap_iter_size_hint(it, checks) ==
    IF checks /\ u32_lt(it.end, it.start) THEN Err("panic")
    ELSE Ok(<<wrapping_sub(it.end, it.start)>>)

(***************************************************************************)
(* paging: iter()?.skip(start_page as usize * size as usize)               *)
(*                .take(size as usize).collect().                          *)
(* A usize is 64 bits wide on a native target and 32 on wasm32, where the  *)
(* product wraps or, with overflow checks, panics.  Skip reaches the first *)
(* item with nth(n), or (folding, as collect does since try_fold was       *)
(* specialised) with nth(n - 1) whose item it drops.  Each combination is  *)
(* a build; a usize is held as its low 32 bits and whether it is 2^32 or   *)
(* more.                                                                   *)
(***************************************************************************)
Builds ==
    { [usize |-> u, skip |-> k] : u \in {"64", "32_wrapping", "32_checked"},
                                  k \in {"nth", "fold"} }

\* p * s as a usize: the long multiplication of the bytes of p and s
mul_term(a, b, i, k) == IF k - i \in 0..3 THEN a[4 - i] * b[4 - (k - i)] ELSE 0
mul_column(a, b, k) ==
    mul_term(a, b, 0, k) + mul_term(a, b, 1, k) + mul_term(a, b, 2, k) + mul_term(a, b, 3, k)
RECURSIVE mul_bytes(_, _, _, _)
mul_carry(a, b, k, t) == <<t % 256>> \o mul_bytes(a, b, k + 1, t \div 256)
\* the bytes of the product from byte k up, least significant first
mul_bytes(a, b, k, carry) ==
    IF k = 8 THEN <<>> ELSE mul_carry(a, b, k, mul_column(a, b, k) + carry)
usize_of(d) ==
    [lo |-> from_be_bytes(<<d[4], d[3], d[2], d[1]>>), over |-> \E i \in 5..8 : d[i] # 0]
\* factors below 2^15 are multiplied as they are
usize_mul(p, s) ==
    IF p \in 0..32767 /\ s \in 0..32767 THEN [lo |-> p * s, over |-> FALSE]
    ELSE usize_of(mul_bytes(to_be_bytes(p), to_be_bytes(s), 0, 0))

\* the call the iterator of either store answers
iter_next(kind, sto, h, it) ==
    IF kind = "dq" THEN dq_iter_next(sto, h, it) ELSE ap_iter_next(sto, h, it)
iter_nth(kind, sto, h, it, n) ==
    IF kind = "dq" THEN dq_iter_nth(sto, h, it, n) ELSE ap_iter_nth(sto, h, it, n)
iter_nth_back(kind, sto, h, it, n) ==
    IF kind = "dq" THEN dq_iter_nth_back(sto, h, it, n) ELSE ap_iter_nth_back(sto, h, it, n)
iter_size_hint(kind, it, checks) ==
    IF kind = "dq" THEN dq_iter_size_hint(it, checks) ELSE ap_iter_size_hint(it, checks)
iter(kind, sto, h) == IF kind = "dq" THEN dq_iter(sto, h) ELSE ap_iter(sto, h)
iter_next_back(kind, sto, h, it) ==
    IF kind = "dq" THEN dq_iter_next_back(sto, h, it) ELSE ap_iter_next_back(sto, h, it)
get_at(kind, sto, h, pos) ==
    IF kind = "dq" THEN dq_get_at(sto, h, pos) ELSE ap_get_at(sto, h, pos)

\* take(size).collect(): up to `left` items from the cursor, stopping at the first Err
RECURSIVE take_collect(_, _, _, _, _, _)
take_collect_item(kind, n, left, acc) ==
    IF n.item = <<>> THEN Out(n.sto, n.h, Ok(<<acc>>))
    ELSE IF ~n.item[1].ok THEN Out(n.sto, n.h, n.item[1])
    ELSE take_collect(kind, n.sto, n.h, n.it, wrapping_sub(left, 1),
                      Append(acc, n.item[1].val[1]))
take_collect(kind, sto, h, it, left, acc) ==
    IF left = 0 THEN Out(sto, h, Ok(<<acc>>))
    ELSE take_collect_item(kind, iter_next(kind, sto, h, it), left, acc)

\* skip by folding: nth(n - 1), its item dropped; nothing follows a None
skip_fold_dropped(kind, d, size) ==
    IF d.item = <<>> THEN Out(d.sto, d.h, Ok(<<<<>>>>))
    ELSE take_collect(kind, d.sto, d.h, d.it, size, <<>>)
\* skip by nth(n): the cursor moves n on and the items are taken from there
skip_nth_taken(kind, sto, h, it, n, size) ==
    take_collect(kind, sto, h, [it EXCEPT !.start = saturating_add(it.start, n)], size, <<>>)

paging_skip(kind, sto, h, it, n, size, build) ==
    IF size = 0 THEN Out(sto, h, Ok(<<<<>>>>))
    ELSE IF n.lo = 0 /\ ~n.over THEN take_collect(kind, sto, h, it, size, <<>>)
    ELSE IF build.skip = "nth" THEN skip_nth_taken(kind, sto, h, it, n.lo, size)
    ELSE skip_fold_dropped(kind, iter_nth(kind, sto, h, it, wrapping_sub(n.lo, 1)), size)
\* the product under the build: it panics, wraps, or is exact
paging_product(kind, i, n, size, build) ==
    IF n.over /\ build.usize = "32_checked" THEN Returning(i, Err("panic"))
    ELSE IF build.usize = "32_wrapping"
    THEN paging_skip(kind, i.sto, i.h, i.res.val[1], [lo |-> n.lo, over |-> FALSE], size, build)
    ELSE paging_skip(kind, i.sto, i.h, i.res.val[1], n, size, build)
paging_iter(kind, i, start_page, size, build) ==
    IF ~i.res.ok THEN i ELSE paging_product(kind, i, usize_mul(start_page, size), size, build)

dq_paging(sto, h, start_page, size, build) ==
    paging_iter("dq", dq_iter(sto, h), start_page, size, build)
ap_paging(sto, h, start_page, size, build) ==
    paging_iter("ap", ap_iter(sto, h), start_page, size, build)

(***************************************************************************)
(* What a caller observes of a state, through the handlers.                *)
(***************************************************************************)
dq_len(sto, h) == dq_get_len(sto, h).res.val[1]
dq_off(sto, h) == dq_get_off(sto, h).res.val[1]
\* the results of get_at(0) .. get_at(len - 1)
dq_view(sto, h) == [p \in 1..dq_len(sto, h) |-> dq_get_at(sto, h, p - 1).res]
\* the results iter() yields, front to back
dq_drain_all(i) == dq_drain(i.sto, i.h, i.res.val[1])
dq_iterated(sto, h) == dq_drain_all(dq_iter(sto, h))

DqLen == dq_len(storage, dq)
DqOff == dq_off(storage, dq)
DqView == dq_view(storage, dq)
DqIterated == dq_iterated(storage, dq)

ap_len(sto, h) == ap_get_len(sto, h).res.val[1]
ap_view(sto, h) == [p \in 1..ap_len(sto, h) |-> ap_get_at(sto, h, p - 1).res]

ApLen == ap_len(storage, ap)
ApView == ap_view(storage, ap)

\* a sequence of values as the results reading it yields
OkSeq(s) == [p \in 1..Len(s) |-> Ok(<<s[p]>>)]

(***************************************************************************)
(* The same operations on a plain sequence.                                *)
(***************************************************************************)
abs_remove(s, pos) ==
    IF u32_lt(pos, Len(s)) THEN SubSeq(s, 1, pos) \o SubSeq(s, pos + 2, Len(s)) ELSE s
abs_set_at(s, pos, x) ==
    IF u32_lt(pos, Len(s)) THEN [s EXCEPT ![pos + 1] = x] ELSE s
abs_pop_back(s) == IF s = <<>> THEN s ELSE SubSeq(s, 1, Len(s) - 1)
abs_pop_front(s) == IF s = <<>> THEN s ELSE Tail(s)

(***************************************************************************)
(* The state machine.  One caller drives one store handle through the      *)
(* substrate, or two handles of one store; Init chooses which.             *)
(***************************************************************************)
\* the suffixes passed to add_suffix: "", "\0" and "sx"
Suffixes == { <<>>, <<0>>, <<115, 120>> }
\* the handles that may stand beside the first: a second one constructed on the
\* same namespace, or one derived from the first with add_suffix
SecondHandles(d) ==
    IF d = "dq_two"
    THEN {DequeStore_new(TestNamespace)}
         \cup {DequeStore_add_suffix(DequeStore_new(TestNamespace), s) : s \in Suffixes}
    ELSE IF d = "ap_two"
    THEN {AppendStore_new(TestNamespace)}
         \cup {AppendStore_add_suffix(AppendStore_new(TestNamespace), s) : s \in Suffixes}
    ELSE {None}

Init ==
    /\ storage = <<>>
    /\ dq = DequeStore_new(TestNamespace)
    /\ ap = AppendStore_new(TestNamespace)
    /\ dq_abs = <<>>
    /\ ap_abs = <<>>
    /\ driven \in {"dq", "ap", "dq_two", "ap_two", "dq_iter", "ap_iter"}
    /\ second \in SecondHandles(driven)
    /\ cursor = None

\* the positions passed to get_at, set_at and remove: in range, at the length, past it
Positions == 0..MaxSlots \cup {U32_MAX}

\* the (start_page, size) pairs passed to paging: pages within and past the
\* elements, size 0, and products of 2^32 - 1, 2^32 and 2^32 + 1
PageArgs ==
    { <<0, 0>>, <<1, 2>>, <<1, 3>>, <<0, 65536>>, <<1, U32_MAX>>,
      <<65536, 65536>>, <<641, 6700417>> }
\* the pairs the caller of the state machine passes
PagesCalled == { <<1, 2>>, <<641, 6700417>> }

\* the element slots of the substrate: the keys of prefix plus four index bytes
ElementKeys(sto) == {k \in DOMAIN sto : Len(k) = Len(TestNamespace) + 4}

\* a deque call with outcome r, within the bound of the model
DqStep(r, abs) ==
    /\ driven = "dq"
    /\ Cardinality(ElementKeys(r.sto)) <= MaxSlots
    /\ storage' = r.sto
    /\ dq' = r.h
    /\ dq_abs' = abs
    /\ UNCHANGED <<ap, ap_abs, driven, second, cursor>>

DqPushBack(x) ==
    DqStep(dq_push_back(storage, dq, x), Append(dq_abs, x))
DqPushFront(x) ==
    DqStep(dq_push_front(storage, dq, x), <<x>> \o dq_abs)
DqPopBack ==
    DqStep(dq_pop_back(storage, dq), abs_pop_back(dq_abs))
DqPopFront ==
    DqStep(dq_pop_front(storage, dq), abs_pop_front(dq_abs))
DqRemove(pos) ==
    DqStep(dq_remove(storage, dq, pos), abs_remove(dq_abs, pos))
DqSetAt(pos, x) ==
    DqStep(dq_set_at(storage, dq, pos, x), abs_set_at(dq_abs, pos, x))
DqClear ==
    DqStep(dq_clear(storage, dq), <<>>)
DqGetAt(pos) ==
    DqStep(dq_get_at(storage, dq, pos), dq_abs)
DqGetLen ==
    DqStep(dq_get_len(storage, dq), dq_abs)
DqIsEmpty ==
    DqStep(dq_is_empty(storage, dq), dq_abs)
DqPaging(start_page, size, build) ==
    DqStep(dq_paging(storage, dq, start_page, size, build), dq_abs)

DqNext ==
    \/ \E x \in Values : DqPushBack(x)
    \/ \E x \in Values : DqPushFront(x)
    \/ DqPopBack
    \/ DqPopFront
    \/ \E pos \in Positions : DqRemove(pos)
    \/ \E pos \in Positions, x \in Values : DqSetAt(pos, x)
    \/ DqClear
    \/ \E pos \in Positions : DqGetAt(pos)
    \/ DqGetLen
    \/ DqIsEmpty
    \/ \E a \in PagesCalled, build \in Builds : DqPaging(a[1], a[2], build)

\* an append store call with outcome r, within the bound of the model
ApStep(r, abs) ==
    /\ driven = "ap"
    /\ Cardinality(ElementKeys(r.sto)) <= MaxSlots
    /\ storage' = r.sto
    /\ ap' = r.h
    /\ ap_abs' = abs
    /\ UNCHANGED <<dq, dq_abs, driven, second, cursor>>

ApPush(x) ==
    ApStep(ap_push(storage, ap, x), Append(ap_abs, x))
ApPop ==
    ApStep(ap_pop(storage, ap), abs_pop_back(ap_abs))
ApRemove(pos) ==
    ApStep(ap_remove(storage, ap, pos), abs_remove(ap_abs, pos))
ApSetAt(pos, x) ==
    ApStep(ap_set_at(storage, ap, pos, x), abs_set_at(ap_abs, pos, x))
ApClear ==
    ApStep(ap_clear(storage, ap), <<>>)
ApGetAt(pos) ==
    ApStep(ap_get_at(storage, ap, pos), ap_abs)
ApGetLen ==
    ApStep(ap_get_len(storage, ap), ap_abs)
ApIsEmpty ==
    ApStep(ap_is_empty(storage, ap), ap_abs)
ApPaging(start_page, size, build) ==
    ApStep(ap_paging(storage, ap, start_page, size, build), ap_abs)

ApNext ==
    \/ \E x \in Values : ApPush(x)
    \/ ApPop
    \/ \E pos \in Positions : ApRemove(pos)
    \/ \E pos \in Positions, x \in Values : ApSetAt(pos, x)
    \/ ApClear
    \/ \E pos \in Positions : ApGetAt(pos)
    \/ ApGetLen
    \/ ApIsEmpty
    \/ \E a \in PagesCalled, build \in Builds : ApPaging(a[1], a[2], build)

\* the two handles, and the positions passed to remove beside a second handle
Handles == {"first", "second"}
DqHandle(who) == IF who = "first" THEN dq ELSE second
ApHandle(who) == IF who = "first" THEN ap ELSE second
FewPositions == {0, 1}

\* a deque call through one of two handles, with outcome r
DqTwoStep(r, who) ==
    /\ driven = "dq_two"
    /\ Cardinality(DOMAIN r.sto) <= MaxKeys
    /\ storage' = r.sto
    /\ dq' = IF who = "first" THEN r.h ELSE dq
    /\ second' = IF who = "first" THEN second ELSE r.h
    /\ UNCHANGED <<ap, dq_abs, ap_abs, driven, cursor>>

DqTwoPushBack(who, x) == DqTwoStep(dq_push_back(storage, DqHandle(who), x), who)
DqTwoPopBack(who) == DqTwoStep(dq_pop_back(storage, DqHandle(who)), who)
DqTwoRemove(who, pos) == DqTwoStep(dq_remove(storage, DqHandle(who), pos), who)
DqTwoGetLen(who) == DqTwoStep(dq_get_len(storage, DqHandle(who)), who)

DqTwoNext ==
    \/ \E who \in Handles, x \in Values : DqTwoPushBack(who, x)
    \/ \E who \in Handles : DqTwoPopBack(who)
    \/ \E who \in Handles, pos \in FewPositions : DqTwoRemove(who, pos)
    \/ \E who \in Handles : DqTwoGetLen(who)

\* an append store call through one of two handles, with outcome r
ApTwoStep(r, who) ==
    /\ driven = "ap_two"
    /\ Cardinality(DOMAIN r.sto) <= MaxKeys
    /\ storage' = r.sto
    /\ ap' = IF who = "first" THEN r.h ELSE ap
    /\ second' = IF who = "first" THEN second ELSE r.h
    /\ UNCHANGED <<dq, dq_abs, ap_abs, driven, cursor>>

ApTwoPush(who, x) == ApTwoStep(ap_push(storage, ApHandle(who), x), who)
ApTwoPop(who) == ApTwoStep(ap_pop(storage, ApHandle(who)), who)
ApTwoRemove(who, pos) == ApTwoStep(ap_remove(storage, ApHandle(who), pos), who)
ApTwoGetLen(who) == ApTwoStep(ap_get_len(storage, ApHandle(who)), who)

ApTwoNext ==
    \/ \E who \in Handles, x \in Values : ApTwoPush(who, x)
    \/ \E who \in Handles : ApTwoPop(who)
    \/ \E who \in Handles, pos \in FewPositions : ApTwoRemove(who, pos)
    \/ \E who \in Handles : ApTwoGetLen(who)

\* the store an iterator is taken of, and its handle
Iterated == IF driven = "dq_iter" THEN "dq" ELSE "ap"
IterHandle == IF driven = "dq_iter" THEN dq ELSE ap

\* the usize passed to nth and nth_back: the low 32 bits, and whether it is 2^32 or more
usize(lo, over) == [lo |-> lo, over |-> over]
SkipsCalled == { usize(0, FALSE), usize(1, FALSE), usize(2, FALSE), usize(U32_MAX, FALSE),
                 usize(0, TRUE), usize(1, TRUE) }
\* n as u32
as_u32(n) == n.lo

\* a call on the store or on its iterator, with the substrate sto and the handle h after it
IterStep(sto, h, abs, c) ==
    /\ driven \in {"dq_iter", "ap_iter"}
    /\ storage' = sto
    /\ dq' = IF driven = "dq_iter" THEN h ELSE dq
    /\ ap' = IF driven = "ap_iter" THEN h ELSE ap
    /\ dq_abs' = IF driven = "dq_iter" THEN abs ELSE dq_abs
    /\ ap_abs' = IF driven = "ap_iter" THEN abs ELSE ap_abs
    /\ cursor' = c
    /\ UNCHANGED <<driven, second>>
IterAbs == IF driven = "dq_iter" THEN dq_abs ELSE ap_abs
IterStored(r, abs) ==
    /\ ~cursor.some
    /\ Cardinality(ElementKeys(r.sto)) <= MaxIterated
    /\ IterStep(r.sto, r.h, abs, cursor)
\* the cursor is followed a few positions past the elements, and where it saturates
Cursors == 0..(MaxIterated + 2) \cup {U32_MAX}
IterMoved(n) ==
    /\ cursor.some
    /\ n.it.start \in Cursors
    /\ IterStep(n.sto, n.h, IterAbs, Some(n.it))

\* the store is filled while no iterator borrows the substrate
IterPush(x) ==
    IterStored(IF driven = "dq_iter" THEN dq_push_back(storage, dq, x)
               ELSE ap_push(storage, ap, x), Append(IterAbs, x))
IterPushFront(x) ==
    driven = "dq_iter" /\ IterStored(dq_push_front(storage, dq, x), <<x>> \o dq_abs)
IterOpened(i) == i.res.ok /\ IterStep(i.sto, i.h, IterAbs, Some(i.res.val[1]))
IterOpen == ~cursor.some /\ IterOpened(iter(Iterated, storage, IterHandle))
IterNext == IterMoved(iter_next(Iterated, storage, IterHandle, cursor.v))
IterNextBack == IterMoved(iter_next_back(Iterated, storage, IterHandle, cursor.v))
IterNth(n) == IterMoved(iter_nth(Iterated, storage, IterHandle, cursor.v, as_u32(n)))
IterNthBack(n) == IterMoved(iter_nth_back(Iterated, storage, IterHandle, cursor.v, as_u32(n)))
IterSizeHint(checks) ==
    /\ cursor.some
    /\ iter_size_hint(Iterated, cursor.v, checks).ok
    /\ UNCHANGED vars

IterCalls ==
    \/ \E x \in Values : IterPush(x)
    \/ \E x \in Values : IterPushFront(x)
    \/ IterOpen
    \/ IterNext
    \/ IterNextBack
    \/ \E n \in SkipsCalled : IterNth(n)
    \/ \E n \in SkipsCalled : IterNthBack(n)
    \/ \E checks \in BOOLEAN : IterSizeHint(checks)

Next == DqNext \/ ApNext \/ DqTwoNext \/ ApTwoNext \/ IterCalls

Spec == Init /\ [][Next]_vars

(***************************************************************************)
(* Properties.  An outcome read back through the handlers:                 *)
(***************************************************************************)
LenAfter(c) == dq_len(c.sto, c.h)
OffAfter(c) == dq_off(c.sto, c.h)
ViewAfter(c) == dq_view(c.sto, c.h)
IteratedAfter(c) == dq_iterated(c.sto, c.h)
\* the offset has wrapped below 0 to the top of the index space
Wrapped(off) == u32_gt(off, MaxI32)

(***************************************************************************)
(* C1.  DequeStore refines a plain list: from the empty namespace, through *)
(* one handle, after any sequence of push_front, push_back, pop_front,     *)
(* pop_back, remove, set_at and clear calls, get_len() is the length of    *)
(* the list the same calls produce on a plain sequence, and get_at(p) is   *)
(* that list's element p for every p below the length.                     *)
(***************************************************************************)
C1_RefinesList ==
    driven = "dq" =>
        /\ dq_get_len(storage, dq).res = Ok(<<Len(dq_abs)>>)
        /\ \A p \in 0..(Len(dq_abs) - 1) :
               dq_get_at(storage, dq, p).res = Ok(<<dq_abs[p + 1]>>)

\* three live elements of different values under a wrapped offset, with every
\* slot of the bound written: pushes at both ends and removals have acted
C1_Witness ==
    /\ driven = "dq"
    /\ Len(dq_abs) = 3
    /\ dq_abs[1] # dq_abs[2]
    /\ Wrapped(DqOff)
    /\ Cardinality(ElementKeys(storage)) = MaxSlots
    /\ DqView = OkSeq(dq_abs)

(***************************************************************************)
(* C2.  In every state the calls reach, push_back(x) appends x to what     *)
(* iter() yields front to back and push_front(x) puts x before it, so that *)
(* after any sequence of pushes iter() yields the items in the order the   *)
(* calls imply; this holds also when the offset has wrapped below 0.       *)
(***************************************************************************)
C2_PushOrder ==
    driven = "dq" =>
        \A x \in Values :
            /\ IteratedAfter(dq_push_back(storage, dq, x)) = Append(DqIterated, Ok(<<x>>))
            /\ IteratedAfter(dq_push_front(storage, dq, x)) = <<Ok(<<x>>)>> \o DqIterated

\* push_back(1), push_front(2), push_front(1) and nothing else: three slots,
\* the offset at 2^32 - 2, and iter() yields 1, 2, 1
C2_Witness ==
    /\ driven = "dq"
    /\ dq_abs = <<1, 2, 1>>
    /\ Cardinality(ElementKeys(storage)) = 3
    /\ dq.offset = Some(wrapping_sub(0, 2))
    /\ DqIterated = OkSeq(dq_abs)

(***************************************************************************)
(* C3.  remove(pos) with pos < len returns the element that was at logical *)
(* position pos, makes the length one less, and leaves the other elements  *)
(* in their order, in both shift directions.                               *)
(***************************************************************************)
C3_Removed(r, pos) ==
    /\ r.res = DqView[pos + 1]
    /\ LenAfter(r) = DqLen - 1
    /\ ViewAfter(r) = abs_remove(DqView, pos)
C3_RemoveKeepsOrder ==
    driven = "dq" =>
        \A pos \in Positions :
            u32_lt(pos, DqLen) => C3_Removed(dq_remove(storage, dq, pos), pos)

\* five elements: remove(3) shifts the last one toward the tail-side gap, and
\* remove(1) shifts the first one toward the head-side gap
C3_Witness ==
    /\ driven = "dq"
    /\ Len(dq_abs) = 5
    /\ dq_abs[4] # dq_abs[5]
    /\ dq_abs[1] # dq_abs[2]
    /\ dq_closer_to_tail(5, 3)
    /\ ~dq_closer_to_tail(5, 1)
    /\ dq_remove(storage, dq, 3).res = Ok(<<dq_abs[4]>>)
    /\ ViewAfter(dq_remove(storage, dq, 3)) = OkSeq(abs_remove(dq_abs, 3))
    /\ ViewAfter(dq_remove(storage, dq, 1)) = OkSeq(abs_remove(dq_abs, 1))

(***************************************************************************)
(* C4.  remove(pos) with pos < len compares len - pos with pos.  When      *)
(* len - pos < pos, each slot from pos up to len - 2 receives the element  *)
(* of the slot after it and the offset stays.  Otherwise each slot from    *)
(* pos down to 1 receives the element of the slot before it and the offset *)
(* becomes offset + 1 mod 2^32.  No other slot changes.  From empty,       *)
(* push_front(2), push_back(3), push_back(4), push_front(1) gives          *)
(* [1,2,3,4], and remove(1) then returns 2, shifts head-ward and leaves    *)
(* [1,3,4].                                                                *)
(***************************************************************************)
\* the slots a run can have written lie within MaxSlots of the offset
Window == (-MaxSlots)..MaxSlots
\* the slot at logical position i under offset off: None when it was never written
SlotAt(sto, off, i) == storage_get(sto, dq_as_slice(dq) \o to_be_bytes(wrapping_add(off, i)))
\* the offset a new handle reads from the substrate
PersistedOff(c) == dq_off(c.sto, DequeStore_new(TestNamespace))

ShiftedTailward(r, len, off, pos) ==
    /\ r.res.ok
    /\ OffAfter(r) = off
    /\ PersistedOff(r) = off
    /\ \A i \in Window :
           SlotAt(r.sto, off, i) =
               IF pos <= i /\ i < len - 1 THEN SlotAt(storage, off, i + 1)
               ELSE SlotAt(storage, off, i)
ShiftedHeadward(r, len, off, pos) ==
    /\ r.res.ok
    /\ OffAfter(r) = wrapping_add(off, 1)
    /\ PersistedOff(r) = wrapping_add(off, 1)
    /\ \A i \in Window :
           SlotAt(r.sto, off, i) =
               IF 1 <= i /\ i <= pos THEN SlotAt(storage, off, i - 1)
               ELSE SlotAt(storage, off, i)

PushFront(c, x) == dq_push_front(c.sto, c.h, x)
PushBack(c, x) == dq_push_back(c.sto, c.h, x)
Remove(c, pos) == dq_remove(c.sto, c.h, pos)
Empty == Out(<<>>, DequeStore_new(TestNamespace), Ok(<<>>))
Scenario == PushFront(PushBack(PushBack(PushFront(Empty, 2), 3), 4), 1)
ScenarioRemoved == Remove(Scenario, 1)

C4_Scenario ==
    /\ ViewAfter(Scenario) = OkSeq(<<1, 2, 3, 4>>)
    /\ ~dq_closer_to_tail(LenAfter(Scenario), 1)
    /\ ScenarioRemoved.res = Ok(<<2>>)
    /\ OffAfter(ScenarioRemoved) = wrapping_add(OffAfter(Scenario), 1)
    /\ LenAfter(ScenarioRemoved) = 3
    /\ ViewAfter(ScenarioRemoved) = OkSeq(<<1, 3, 4>>)

C6_GetAtBounds ==
    driven = "dq" =>
        \A pos \in Positions :
            dq_get_at(storage, dq, pos).res =
                IF u32_ge(pos, DqLen) THEN Err("out_of_bounds")
                ELSE Ok(<<dq_abs[pos + 1]>>)

\* two live elements and a vacated slot right after them that still holds an
\* element: get_at(2) fails all the same, and so does get_at(2^32 - 1)
C6_Witness ==
    /\ driven = "dq"
    /\ Len(dq_abs) = 2
    /\ SlotAt(storage, DqOff, 2).some
    /\ dq_get_at(storage, dq, 2).res = Err("out_of_bounds")
    /\ dq_get_at(storage, dq, U32_MAX).res = Err("out_of_bounds")
    /\ dq_get_at(storage, dq, 1).res = Ok(<<dq_abs[2]>>)

(***************************************************************************)
(* C7.  AppendStore.get_at(pos) fails for every pos at or past get_len(),  *)
(* after any sequence of calls; get_at at the length never returns what a  *)
(* vacated slot still holds.                                               *)
(***************************************************************************)
C7_GetAtFailsPastEnd ==
    driven = "ap" =>
        \A pos \in Positions :
            u32_ge(pos, ApLen) => ~ap_get_at(storage, ap, pos).res.ok

(***************************************************************************)
(* C8.  In every reachable state, push_back(x) immediately followed by     *)
(* pop_back() returns x and leaves the length, the offset and every        *)
(* logical element as they were before the push.                           *)
(***************************************************************************)
PopBack(c) == dq_pop_back(c.sto, c.h)
C8_Restored(r, x) ==
    /\ r.res = Ok(<<x>>)
    /\ LenAfter(r) = DqLen
    /\ OffAfter(r) = DqOff
    /\ ViewAfter(r) = DqView
C8_PushPopBack ==
    driven = "dq" =>
        \A x \in Values : C8_Restored(PopBack(dq_push_back(storage, dq, x)), x)

\* two elements under a wrapped offset, the slot after them holding the other
\* value from an earlier element: the push overwrites it and the pop returns x
C8_Witness ==
    /\ driven = "dq"
    /\ Len(dq_abs) = 2
    /\ Wrapped(DqOff)
    /\ SlotAt(storage, DqOff, 2) = Some(Json_serialize(2).val)
    /\ C8_Restored(PopBack(dq_push_back(storage, dq, 1)), 1)

(***************************************************************************)
(* C9.  pop_front() returns the element at logical position 0 and          *)
(* pop_back() the one at position len - 1; whatever the interleaving of    *)
(* the two, a deque of n elements gives n successful pops, each removing   *)
(* the element at its end, and then both pops fail.                        *)
(***************************************************************************)
RECURSIVE Drains(_, _, _)
DrainsFront(r, s) == r.res = Ok(<<Head(s)>>) /\ Drains(r.sto, r.h, Tail(s))
DrainsBack(r, s) == r.res = Ok(<<s[Len(s)]>>) /\ Drains(r.sto, r.h, SubSeq(s, 1, Len(s) - 1))
\* every interleaving of pops drains the elements s, front to back, off (sto, h)
Drains(sto, h, s) ==
    IF s = <<>>
    THEN ~dq_pop_front(sto, h).res.ok /\ ~dq_pop_back(sto, h).res.ok
    ELSE DrainsFront(dq_pop_front(sto, h), s) /\ DrainsBack(dq_pop_back(sto, h), s)

C9_PopsDrain ==
    driven = "dq" =>
        /\ DqView = OkSeq(dq_abs)
        /\ Drains(storage, dq, dq_abs)

\* five elements, the two ends different, under a wrapped offset
C9_Witness ==
    /\ driven = "dq"
    /\ Len(dq_abs) = 5
    /\ dq_abs[1] # dq_abs[5]
    /\ Wrapped(DqOff)
    /\ dq_pop_front(storage, dq).res = Ok(<<dq_abs[1]>>)
    /\ dq_pop_back(storage, dq).res = Ok(<<dq_abs[5]>>)
    /\ Drains(storage, dq, dq_abs)

(***************************************************************************)
(* C10.  pop (AppendStore), pop_back and pop_front (DequeStore) on a store *)
(* of length 0 return the empty-collection error and leave the substrate   *)
(* (persisted length, persisted offset, every slot) and the cached offset  *)
(* unchanged; the cached length holds 0 afterwards, which fills it in when *)
(* the handle had not read the length before.  The length stays 0.         *)
(***************************************************************************)
C10_Failed(r, sto, h) ==
    /\ r.res = Err("empty")
    /\ r.sto = sto
    /\ r.h = [h EXCEPT !.length = Some(0)]
C10_PopOnEmpty ==
    /\ (driven = "dq" /\ DqLen = 0) =>
           /\ C10_Failed(dq_pop_back(storage, dq), storage, dq)
           /\ C10_Failed(dq_pop_front(storage, dq), storage, dq)
           /\ LenAfter(dq_pop_back(storage, dq)) = 0
           /\ LenAfter(dq_pop_front(storage, dq)) = 0
    /\ (driven = "ap" /\ ApLen = 0) =>
           /\ C10_Failed(ap_pop(storage, ap), storage, ap)
           /\ ap_len(storage, ap_pop(storage, ap).h) = 0

\* C10 as the claim states it: the cached counters too are left as they were
C10_Unchanged(r, sto, h) ==
    /\ r.res = Err("empty")
    /\ r.sto = sto
    /\ r.h = h
C10_PopOnEmptyChangesNothing ==
    /\ (driven = "dq" /\ DqLen = 0) =>
           /\ C10_Unchanged(dq_pop_back(storage, dq), storage, dq)
           /\ C10_Unchanged(dq_pop_front(storage, dq), storage, dq)
    /\ (driven = "ap" /\ ApLen = 0) =>
           /\ C10_Unchanged(ap_pop(storage, ap), storage, ap)

\* a deque emptied again after use: slots still written, the offset moved, the
\* persisted length 0, and both pops fail
C10_Witness ==
    /\ driven = "dq"
    /\ DqLen = 0
    /\ DqOff # 0
    /\ Cardinality(ElementKeys(storage)) >= 2
    /\ storage_get(storage, TestNamespace \o LEN_KEY) = Some(to_be_bytes(0))
    /\ C10_Failed(dq_pop_back(storage, dq), storage, dq)
    /\ C10_Failed(dq_pop_front(storage, dq), storage, dq)

(***************************************************************************)
(* Two handles of one store.                                               *)
(***************************************************************************)
Two == driven \in {"dq_two", "ap_two"}
Deque == driven \in {"dq", "dq_two", "dq_iter"}
One == driven \in {"dq", "ap"}
HandleOf(who) == IF who = "second" THEN second ELSE IF Deque THEN dq ELSE ap
\* the handles of the scenario
HandlesHeld == IF Two THEN {HandleOf("first"), second} ELSE {HandleOf("first")}
Other(who) == IF who = "first" THEN "second" ELSE "first"
\* the handle constructed again: its cache starts empty
Unhydrated(h) ==
    IF Deque THEN [h EXCEPT !.length = None, !.offset = None] ELSE [h EXCEPT !.length = None]
as_slice(h) == IF Deque THEN dq_as_slice(h) ELSE ap_as_slice(h)
get_len(sto, h) == IF Deque THEN dq_get_len(sto, h) ELSE ap_get_len(sto, h)
is_empty(sto, h) == IF Deque THEN dq_is_empty(sto, h) ELSE ap_is_empty(sto, h)
push(sto, h, x) == IF Deque THEN dq_push_back(sto, h, x) ELSE ap_push(sto, h, x)
\* the length a handle that re-reads the substrate finds
PersistedLen(sto, h) == get_len(sto, Unhydrated(h)).res

(***************************************************************************)
(* C11.  paging(start_page, size) against the page of the sequence: the    *)
(* elements at the logical positions start_page * size ..                  *)
(* min(start_page * size + size, len) - 1, in order.                       *)
(***************************************************************************)
\* positions from .. min(from + size, len) - 1 of s
PageFrom(s, from, size) ==
    IF u32_ge(from, Len(s)) THEN <<>>
    ELSE IF u32_ge(size, Len(s) - from) THEN SubSeq(s, from + 1, Len(s))
    ELSE SubSeq(s, from + 1, from + size)
\* the page the claim names; the positions end below 2^32
PageOf(s, start_page, size) ==
    IF usize_mul(start_page, size).over THEN <<>>
    ELSE PageFrom(s, usize_mul(start_page, size).lo, size)

Paged(kind, start_page, size, build) ==
    IF kind = "dq" THEN dq_paging(storage, dq, start_page, size, build)
    ELSE ap_paging(storage, ap, start_page, size, build)
Abs(kind) == IF kind = "dq" THEN dq_abs ELSE ap_abs

\* pages start_page, start_page + 1, ... up to the first empty one, end to end
RECURSIVE PagesFrom(_, _, _, _)
PagesThen(kind, page, start_page, size, build) ==
    IF ~page.ok THEN <<page>>
    ELSE IF page.val[1] = <<>> THEN <<>>
    ELSE page.val[1] \o PagesFrom(kind, start_page + 1, size, build)
PagesFrom(kind, start_page, size, build) ==
    PagesThen(kind, Paged(kind, start_page, size, build).res, start_page, size, build)

\* C11 for products below 2^32: for both stores and every build, paging
\* returns the page of the sequence, and the pages 0, 1, 2, ... of size 2 up to
\* the first empty one, put end to end, are the full sequence, each element once
PagesWithin == {a \in PageArgs : ~usize_mul(a[1], a[2]).over}

C11_Paging ==
    One =>
        \A build \in Builds :
            /\ \A a \in PagesWithin :
                   Paged(driven, a[1], a[2], build).res
                       = Ok(<<PageOf(Abs(driven), a[1], a[2])>>)
            /\ PagesFrom(driven, 0, 2, build) = Abs(driven)

\* C11: for both stores, every start_page and size and every build whose
\* arithmetic does not panic, paging returns the elements at positions
\* start_page * size .. min(start_page * size + size, len) - 1 in order
C11_PagingAnyProduct ==
    One =>
        \A build \in {b \in Builds : b.usize # "32_checked"} :
            \A a \in PageArgs :
                Paged(driven, a[1], a[2], build).res
                    = Ok(<<PageOf(Abs(driven), a[1], a[2])>>)

\* five elements under a wrapped offset: page 1 of size 2 is the third and the
\* fourth, page 1 of size 3 the last two, page 2 of size 2 the last one
C11_Witness ==
    /\ driven = "dq"
    /\ Len(dq_abs) = 5
    /\ Wrapped(DqOff)
    /\ dq_abs[3] # dq_abs[4]
    /\ \A build \in Builds :
           /\ dq_paging(storage, dq, 1, 2, build).res = Ok(<<SubSeq(dq_abs, 3, 4)>>)
           /\ dq_paging(storage, dq, 1, 3, build).res = Ok(<<SubSeq(dq_abs, 4, 5)>>)
           /\ dq_paging(storage, dq, 2, 2, build).res = Ok(<<SubSeq(dq_abs, 5, 5)>>)

(***************************************************************************)
(* C12.  In every reachable state, DequeStore's clear() leaves the cached  *)
(* and the persisted length and offset at 0; then get_len() is 0 and       *)
(* get_at(pos) fails out of bounds for every pos, for the handle and for a *)
(* new one; and after pushes on the cleared store the elements read and    *)
(* iterated are the pushed ones alone.                                     *)
(***************************************************************************)
Cleared == dq_clear(storage, dq)
\* the outcome c seen through a new handle on the same substrate
Reopened(c) == Out(c.sto, DequeStore_new(TestNamespace), c.res)

C12_Reset(c) ==
    /\ c.res = Ok(<<>>)
    /\ c.h.length = Some(0)
    /\ c.h.offset = Some(0)
    /\ dq_get_u32(c.sto, c.h, LEN_KEY) = Ok(<<0>>)
    /\ dq_get_u32(c.sto, c.h, OFFSET_KEY) = Ok(<<0>>)
C12_NothingVisible(c) ==
    /\ dq_get_len(c.sto, c.h).res = Ok(<<0>>)
    /\ \A pos \in Positions : dq_get_at(c.sto, c.h, pos).res = Err("out_of_bounds")
    /\ IteratedAfter(c) = <<>>
C12_OnlyPushed(c, s) ==
    /\ LenAfter(c) = Len(s)
    /\ ViewAfter(c) = OkSeq(s)
    /\ IteratedAfter(c) = OkSeq(s)
    /\ \A pos \in Positions :
           u32_ge(pos, Len(s)) => dq_get_at(c.sto, c.h, pos).res = Err("out_of_bounds")

C12_Clear ==
    driven = "dq" =>
        /\ C12_Reset(Cleared)
        /\ C12_NothingVisible(Cleared)
        /\ C12_NothingVisible(Reopened(Cleared))
        /\ \A x, y \in Values :
               /\ C12_OnlyPushed(PushBack(Cleared, x), <<x>>)
               /\ C12_OnlyPushed(PushFront(PushBack(Cleared, x), y), <<y, x>>)
               /\ C12_OnlyPushed(Reopened(PushBack(PushBack(Cleared, x), y)), <<x, y>>)

\* three elements under a wrapped offset, all readable, and none after clear();
\* their slots stay in the substrate
C12_Witness ==
    /\ driven = "dq"
    /\ Len(dq_abs) = 3
    /\ Wrapped(DqOff)
    /\ DqView = OkSeq(dq_abs)
    /\ ElementKeys(Cleared.sto) = ElementKeys(storage)
    /\ C12_Reset(Cleared)
    /\ C12_NothingVisible(Cleared)
    /\ C12_OnlyPushed(PushBack(Cleared, 2), <<2>>)

(***************************************************************************)
(* C13.  In every reachable state, AppendStore's clear() leaves get_len()  *)
(* at 0 and get_at(pos) failing for every pos, get_at(0) included.         *)
(***************************************************************************)
ApCleared == ap_clear(storage, ap)

C13_GetAtFailsAfterClear ==
    driven = "ap" =>
        /\ ap_get_len(ApCleared.sto, ApCleared.h).res = Ok(<<0>>)
        /\ \A pos \in Positions : ~ap_get_at(ApCleared.sto, ApCleared.h, pos).res.ok

(***************************************************************************)
(* C14.  With two handles A and B of one store, B's cache hydrated: after  *)
(* A pushes an element, B.get_len() returns what B's cache held, without   *)
(* changing it, while the length persisted for A's namespace is A's length *)
(* plus one.                                                               *)
(***************************************************************************)
C14_Stale(a, b, p) ==
    (b.length.some /\ p.res.ok) =>
        /\ get_len(p.sto, b) = Out(p.sto, b, Ok(<<b.length.v>>))
        /\ PersistedLen(p.sto, a) = Ok(<<wrapping_add(get_len(storage, a).res.val[1], 1)>>)
C14_StaleCache ==
    Two =>
        \A who \in Handles, x \in Values :
            C14_Stale(HandleOf(who), HandleOf(Other(who)),
                      push(storage, HandleOf(who), x))

\* the second handle on the first one's namespace has read the length 1; the
\* first has pushed since, the persisted length is 2, and the second reads 1
C14_Witness ==
    /\ driven = "dq_two"
    /\ as_slice(second) = as_slice(dq)
    /\ second.length = Some(1)
    /\ dq.length = Some(2)
    /\ PersistedLen(storage, second) = Ok(<<2>>)
    /\ get_len(storage, second).res = Ok(<<1>>)
    /\ C14_Stale(dq, second, push(storage, dq, 1))
    /\ PersistedLen(push(storage, dq, 1).sto, second) = Ok(<<3>>)

(***************************************************************************)
(* C15.  AppendStore refines a plain list: through one handle, after any   *)
(* sequence of push, pop, remove, set_at and clear calls, iter() yields    *)
(* the list the same calls produce on a plain sequence; pop() returns its  *)
(* last element and leaves the rest; remove(pos) with pos < len returns    *)
(* the element at pos and leaves the others in their order, one fewer; and *)
(* remove(pos) with pos >= len fails and writes nothing.                   *)
(***************************************************************************)
\* the results next() yields until None, for either store
RECURSIVE Drained(_, _, _, _)
DrainedRest(kind, n) ==
    IF n.item = <<>> THEN <<>> ELSE <<n.item[1]>> \o Drained(kind, n.sto, n.h, n.it)
Drained(kind, sto, h, it) == DrainedRest(kind, iter_next(kind, sto, h, it))
ap_iterated(sto, h) == Drained("ap", sto, h, ap_iter(sto, h).res.val[1])
ApIterated == ap_iterated(storage, ap)
ApIteratedAfter(c) == ap_iterated(c.sto, c.h)

C15_Popped(r) ==
    IF ap_abs = <<>> THEN ~r.res.ok /\ r.sto = storage
    ELSE /\ r.res = Ok(<<ap_abs[Len(ap_abs)]>>)
         /\ ap_len(r.sto, r.h) = Len(ap_abs) - 1
         /\ ApIteratedAfter(r) = OkSeq(abs_pop_back(ap_abs))
C15_Removed(r, pos) ==
    IF u32_ge(pos, Len(ap_abs)) THEN r.res = Err("out_of_bounds") /\ r.sto = storage
    ELSE /\ r.res = Ok(<<ap_abs[pos + 1]>>)
         /\ ap_len(r.sto, r.h) = Len(ap_abs) - 1
         /\ ApIteratedAfter(r) = OkSeq(abs_remove(ap_abs, pos))
C15_AppendRefinesList ==
    driven = "ap" =>
        /\ ApLen = Len(ap_abs)
        /\ ApIterated = OkSeq(ap_abs)
        /\ C15_Popped(ap_pop(storage, ap))
        /\ \A pos \in Positions : C15_Removed(ap_remove(storage, ap, pos), pos)

\* four elements after pushes and a removal that left a slot behind; removing
\* the second shifts the two after it
C15_Witness ==
    /\ driven = "ap"
    /\ Len(ap_abs) = 4
    /\ ap_abs[3] # ap_abs[4]
    /\ Cardinality(ElementKeys(storage)) = MaxSlots
    /\ ApIterated = OkSeq(ap_abs)
    /\ C15_Removed(ap_remove(storage, ap, 1), 1)
    /\ ApIteratedAfter(ap_remove(storage, ap, 1)) = OkSeq(<<ap_abs[1], ap_abs[3], ap_abs[4]>>)
    /\ C15_Removed(ap_remove(storage, ap, 4), 4)
    /\ C15_Popped(ap_pop(storage, ap))

(***************************************************************************)
(* C16.  On either store, set_at(pos, item) with pos >= len fails out of   *)
(* bounds and leaves the substrate as it was; with pos < len it succeeds,  *)
(* get_at(pos) then returns item, and the length, the offset, every other  *)
(* logical position and every other key of the substrate are unchanged.    *)
(***************************************************************************)
\* sto and before differ at most at key
OnlyKeyWritten(sto, before, key) ==
    /\ DOMAIN sto = DOMAIN before \cup {key}
    /\ \A k \in DOMAIN before : k # key => sto[k] = before[k]

C16_DequeSet(r, pos, item) ==
    IF u32_ge(pos, Len(dq_abs)) THEN r.res = Err("out_of_bounds") /\ r.sto = storage
    ELSE /\ r.res = Ok(<<>>)
         /\ LenAfter(r) = DqLen
         /\ OffAfter(r) = DqOff
         /\ ViewAfter(r) = [DqView EXCEPT ![pos + 1] = Ok(<<item>>)]
         /\ OnlyKeyWritten(r.sto, storage,
                           dq_as_slice(dq) \o to_be_bytes(wrapping_add(DqOff, pos)))
         /\ r.sto # storage <=> DqView[pos + 1] # Ok(<<item>>)
C16_AppendSet(r, pos, item) ==
    IF u32_ge(pos, Len(ap_abs)) THEN r.res = Err("out_of_bounds") /\ r.sto = storage
    ELSE /\ r.res = Ok(<<>>)
         /\ ap_len(r.sto, r.h) = ApLen
         /\ ap_view(r.sto, r.h) = [ApView EXCEPT ![pos + 1] = Ok(<<item>>)]
         /\ OnlyKeyWritten(r.sto, storage, ap_as_slice(ap) \o to_be_bytes(pos))
C16_SetAt ==
    \A pos \in Positions, item \in Values :
        /\ driven = "dq" => C16_DequeSet(dq_set_at(storage, dq, pos, item), pos, item)
        /\ driven = "ap" => C16_AppendSet(ap_set_at(storage, ap, pos, item), pos, item)

\* three elements of value 1 under a wrapped offset with a slot left behind
\* after them: set_at(1, 2) changes the second alone, set_at(3, 2) fails
C16_Witness ==
    /\ driven = "dq"
    /\ dq_abs = <<1, 1, 1>>
    /\ Wrapped(DqOff)
    /\ SlotAt(storage, DqOff, 3) # None
    /\ ViewAfter(dq_set_at(storage, dq, 1, 2)) = OkSeq(<<1, 2, 1>>)
    /\ C16_DequeSet(dq_set_at(storage, dq, 1, 2), 1, 2)
    /\ C16_DequeSet(dq_set_at(storage, dq, 3, 2), 3, 2)

(***************************************************************************)
(* C17.  For a handle of either store whose cache is empty: when the       *)
(* substrate holds no length key under its namespace, get_len() returns 0  *)
(* and is_empty() true, each leaving Some(0) in the cached length; when it *)
(* holds no offset key, get_off() returns 0 and leaves Some(0) in the      *)
(* cached offset; and none of the three writes to the substrate.           *)
(***************************************************************************)
Absent(h, key) == as_slice(h) \o key \notin DOMAIN storage

C17_Length(h) ==
    /\ get_len(storage, h) = Out(storage, [h EXCEPT !.length = Some(0)], Ok(<<0>>))
    /\ is_empty(storage, h) = Out(storage, [h EXCEPT !.length = Some(0)], Ok(<<TRUE>>))
C17_Offset(h) ==
    dq_get_off(storage, h) = Out(storage, [h EXCEPT !.offset = Some(0)], Ok(<<0>>))
C17_FirstUse ==
    \A h \in HandlesHeld :
        /\ Absent(h, LEN_KEY) => C17_Length(Unhydrated(h))
        /\ (Deque /\ Absent(h, OFFSET_KEY)) => C17_Offset(Unhydrated(h))

\* the first handle has pushed and removed, so the substrate holds elements and
\* counters; the handle derived with the suffix "sx" has not been used, and
\* reads 0 for both counters
C17_Witness ==
    /\ driven = "dq_two"
    /\ second = DequeStore_add_suffix(dq, <<115, 120>>)
    /\ dq_get_len(storage, Unhydrated(dq)).res = Ok(<<2>>)
    /\ dq_get_off(storage, Unhydrated(dq)).res = Ok(<<1>>)
    /\ Absent(second, LEN_KEY)
    /\ Absent(second, OFFSET_KEY)
    /\ C17_Length(second)
    /\ C17_Offset(second)

(***************************************************************************)
(* C18.  With one handle per namespace, in every reachable state and after *)
(* every call from it, a hydrated cached length (and, for DequeStore, a    *)
(* hydrated cached offset) is the value a handle with an empty cache reads *)
(* from the substrate; and the length starts at 0, every successful push   *)
(* makes it one more, every successful pop or remove one less, clear makes *)
(* it 0, and every other or failed call leaves it.                         *)
(***************************************************************************)
Coherent(sto, h) ==
    /\ h.length.some => get_len(sto, Unhydrated(h)).res = Ok(<<h.length.v>>)
    /\ (Deque /\ h.offset.some) => dq_get_off(sto, Unhydrated(h)).res = Ok(<<h.offset.v>>)
\* no two handles of the scenario share a namespace
OneHandleEach == Two => as_slice(HandleOf("first")) # as_slice(second)

\* the outcome r of a call from a state of length len counts as `by`
C18_Counted(r, len, by) ==
    /\ Coherent(r.sto, r.h)
    /\ r.h.length.some
    /\ r.h.length.v = (IF r.res.ok THEN len + by ELSE len)
C18_DequeCounts(len) ==
    /\ \A x \in Values :
           /\ C18_Counted(dq_push_back(storage, dq, x), len, 1)
           /\ C18_Counted(dq_push_front(storage, dq, x), len, 1)
           /\ \A pos \in Positions : C18_Counted(dq_set_at(storage, dq, pos, x), len, 0)
    /\ C18_Counted(dq_pop_back(storage, dq), len, -1)
    /\ C18_Counted(dq_pop_front(storage, dq), len, -1)
    /\ \A pos \in Positions :
           /\ C18_Counted(dq_remove(storage, dq, pos), len, -1)
           /\ C18_Counted(dq_get_at(storage, dq, pos), len, 0)
    /\ C18_Counted(dq_clear(storage, dq), 0, 0)
C18_AppendCounts(len) ==
    /\ \A x \in Values :
           /\ C18_Counted(ap_push(storage, ap, x), len, 1)
           /\ \A pos \in Positions : C18_Counted(ap_set_at(storage, ap, pos, x), len, 0)
    /\ C18_Counted(ap_pop(storage, ap), len, -1)
    /\ \A pos \in Positions :
           /\ C18_Counted(ap_remove(storage, ap, pos), len, -1)
           /\ C18_Counted(ap_get_at(storage, ap, pos), len, 0)
    /\ C18_Counted(ap_clear(storage, ap), 0, 0)
C18_CacheCoherent ==
    OneHandleEach =>
        /\ \A h \in HandlesHeld : Coherent(storage, h)
        /\ driven = "dq" => DqLen = Len(dq_abs) /\ C18_DequeCounts(Len(dq_abs))
        /\ driven = "ap" => ApLen = Len(ap_abs) /\ C18_AppendCounts(Len(ap_abs))

\* both counters cached and persisted, the offset wrapped and every slot of
\* the bound written: pushes at both ends, pops and removes have acted
C18_Witness ==
    /\ driven = "dq"
    /\ dq.length = Some(3)
    /\ dq.offset.some
    /\ Wrapped(dq.offset.v)
    /\ Cardinality(ElementKeys(storage)) = MaxSlots
    /\ dq_get_u32(storage, dq, LEN_KEY) = Ok(<<3>>)
    /\ dq_get_u32(storage, dq, OFFSET_KEY) = Ok(<<dq.offset.v>>)
    /\ C18_DequeCounts(3)
    /\ dq_remove(storage, dq, 1).h.length = Some(2)

(***************************************************************************)
(* C19.  In every state one handle reaches and for every suffix that is    *)
(* not empty, no push, pop or remove through the store derived from the    *)
(* handle with add_suffix changes the length or the elements the handle    *)
(* observes, through its cache or reading afresh, and none through the     *)
(* handle changes what the derived store observes; the same holds in every *)
(* state two handles reach, the second derived from the first with a       *)
(* suffix that is not empty.                                               *)
(***************************************************************************)
view(sto, h) == IF Deque THEN dq_view(sto, h) ELSE ap_view(sto, h)
\* what a handle observes: its get_len() and elements, and those read afresh
Observed(sto, h) ==
    << get_len(sto, h).res, view(sto, h),
       get_len(sto, Unhydrated(h)).res, view(sto, Unhydrated(h)) >>
\* the outcomes of the pushes, pops and removes through h
CallsOf(h) ==
    IF Deque
    THEN {dq_push_back(storage, h, x) : x \in Values}
         \cup {dq_push_front(storage, h, x) : x \in Values}
         \cup {dq_pop_back(storage, h), dq_pop_front(storage, h)}
         \cup {dq_remove(storage, h, pos) : pos \in Positions}
    ELSE {ap_push(storage, h, x) : x \in Values}
         \cup {ap_pop(storage, h)}
         \cup {ap_remove(storage, h, pos) : pos \in Positions}
\* no call through a changes what b observes, nor the other way round
Unobserved(calls, h, seen) == \A r \in calls : Observed(r.sto, h) = seen
Isolated(a, b) ==
    /\ Unobserved(CallsOf(a), b, Observed(storage, b))
    /\ Unobserved(CallsOf(b), a, Observed(storage, a))
Derived(suffix) ==
    IF Deque THEN DequeStore_add_suffix(dq, suffix) ELSE AppendStore_add_suffix(ap, suffix)

C19_NonEmptySuffixIsolation ==
    /\ One => \A suffix \in Suffixes \ {<<>>} : Isolated(HandleOf("first"), Derived(suffix))
    /\ (Two /\ second.prefix.some /\ as_slice(second) # as_slice(HandleOf("first")))
           => Isolated(HandleOf("first"), second)

\* C19: for every suffix, no push, pop or remove through the derived store
\* changes what the first handle observes, nor the other way round
C19_SuffixIsolation ==
    \A suffix \in Suffixes : Isolated(HandleOf("first"), Derived(suffix))

\* both stores hold elements, the derived one under the suffix "sx"
C19_Witness ==
    /\ driven = "dq_two"
    /\ second.prefix.some
    /\ as_slice(second) = TestNamespace \o <<115, 120>>
    /\ as_slice(Derived(<<115, 120>>)) = as_slice(second)
    /\ get_len(storage, Unhydrated(dq)).res = Ok(<<2>>)
    /\ get_len(storage, Unhydrated(second)).res = Ok(<<1>>)
    /\ Isolated(dq, second)
    /\ Isolated(dq, Derived(<<115, 120>>))
\* the length key of the store derived with the suffix "\0" is the key of the
\* first store's element slot 7103854 (0x006c656e)
C19_SuffixKeyIsElementKey ==
    as_slice(DequeStore_add_suffix(DequeStore_new(TestNamespace), <<0>>)) \o LEN_KEY
        = TestNamespace \o to_be_bytes(7103854)

(***************************************************************************)
(* C20.  For both stores, iter() is a cursor over [0, len): next() yields  *)
(* the element at start and moves start one on, next_back() moves end one  *)
(* back and yields the element there; whatever the order of next() and     *)
(* next_back() calls, each position is yielded once, len items in all, and *)
(* then both calls return None and leave the cursor; no call writes to the *)
(* substrate, and iter() again yields the same sequence.                   *)
(***************************************************************************)

\* every order of next() and next_back() calls on the cursor it yields the
\* elements s, the front ones from the front and the back ones from the back
RECURSIVE Walks(_, _, _, _, _)
WalksOn(kind, n, sto, it, item, s) ==
    /\ n.item = <<Ok(<<item>>)>>
    /\ n.sto = sto
    /\ n.it = it
    /\ Walks(kind, n.sto, n.h, n.it, s)
WalksFront(kind, n, sto, h, it, s) ==
    /\ n.item = <<get_at(kind, sto, h, it.start).res>>
    /\ WalksOn(kind, n, sto, [it EXCEPT !.start = it.start + 1], Head(s), Tail(s))
WalksBack(kind, n, sto, h, it, s) ==
    /\ n.item = <<get_at(kind, sto, h, it.end - 1).res>>
    /\ WalksOn(kind, n, sto, [it EXCEPT !.end = it.end - 1], s[Len(s)],
               SubSeq(s, 1, Len(s) - 1))
WalksOut(n, sto, it) == n.item = <<>> /\ n.sto = sto /\ n.it = it
Walks(kind, sto, h, it, s) ==
    IF s = <<>>
    THEN /\ WalksOut(iter_next(kind, sto, h, it), sto, it)
         /\ WalksOut(iter_next_back(kind, sto, h, it), sto, it)
    ELSE /\ WalksFront(kind, iter_next(kind, sto, h, it), sto, h, it, s)
         /\ WalksBack(kind, iter_next_back(kind, sto, h, it), sto, h, it, s)

C20_Cursor(kind, i, s) ==
    /\ i.res = Ok(<<[start |-> 0, end |-> Len(s)]>>)
    /\ i.sto = storage
    /\ Walks(kind, i.sto, i.h, i.res.val[1], s)
    /\ Drained(kind, i.sto, i.h, iter(kind, i.sto, i.h).res.val[1]) = OkSeq(s)
C20_DoubleEnded ==
    /\ driven = "dq" => C20_Cursor("dq", dq_iter(storage, dq), dq_abs)
    /\ driven = "ap" => C20_Cursor("ap", ap_iter(storage, ap), ap_abs)

\* the cursor after next() then next_back() on the cursor it
NextThenBack(n) == dq_iter_next_back(n.sto, n.h, n.it)
\* four elements under a wrapped offset: next() yields the first, next_back()
\* the fourth, and the cursor is left over the second and the third
C20_Witness ==
    /\ driven = "dq"
    /\ Len(dq_abs) = 4
    /\ dq_abs[2] # dq_abs[3]
    /\ Wrapped(DqOff)
    /\ dq_iter_next(storage, dq, [start |-> 0, end |-> 4]).item = <<Ok(<<dq_abs[1]>>)>>
    /\ NextThenBack(dq_iter_next(storage, dq, [start |-> 0, end |-> 4])).item
           = <<Ok(<<dq_abs[4]>>)>>
    /\ NextThenBack(dq_iter_next(storage, dq, [start |-> 0, end |-> 4])).it
           = [start |-> 1, end |-> 3]
    /\ C20_Cursor("dq", dq_iter(storage, dq), dq_abs)

(***************************************************************************)
(* C21.  With one handle per namespace, in every reachable state a clone   *)
(* of the handle, and a handle newly constructed on its namespace, return  *)
(* what the handle returns from get_len(), from get_off() and from         *)
(* get_at(pos) for every pos.                                              *)
(***************************************************************************)
Kind == IF Deque THEN "dq" ELSE "ap"
clone(h) == IF Deque THEN DequeStore_clone(h) ELSE AppendStore_clone(h)
new(namespace) == IF Deque THEN DequeStore_new(namespace) ELSE AppendStore_new(namespace)
get_off(sto, h) == IF Deque THEN dq_get_off(sto, h).res ELSE Ok(<<0>>)
\* what h returns: the length, the offset, and the element at every position
Returned(h) ==
    << get_len(storage, h).res, get_off(storage, h),
       [pos \in Positions |-> get_at(Kind, storage, h, pos).res] >>

C21_Persisted ==
    OneHandleEach =>
        /\ \A h \in HandlesHeld : Returned(clone(h)) = Returned(h)
        /\ Returned(new(TestNamespace)) = Returned(HandleOf("first"))

\* three elements under a wrapped offset, both counters cached; the clone's
\* caches are empty and it reads the same three
C21_Witness ==
    /\ driven = "dq"
    /\ Len(dq_abs) = 3
    /\ dq_abs[1] # dq_abs[3]
    /\ dq.length = Some(3)
    /\ dq.offset.some
    /\ Wrapped(dq.offset.v)
    /\ DequeStore_clone(dq).length = None
    /\ DequeStore_clone(dq).offset = None
    /\ dq_view(storage, DequeStore_clone(dq)) = OkSeq(dq_abs)
    /\ Returned(DequeStore_clone(dq)) = Returned(dq)

(***************************************************************************)
(* C22.  In every state one handle reaches, the substrate holds, for every *)
(* position p below the length, the serialized element p under the key     *)
(* namespace + be32((offset + p) mod 2^32), and the length and the offset  *)
(* under namespace + "len" and namespace + "off", a counter that was never *)
(* written being 0; for AppendStore the same with the offset 0.            *)
(***************************************************************************)
\* the counter under key: absent only when it is 0
Holds(sto, slice, key, num) ==
    IF slice \o key \in DOMAIN sto THEN sto[slice \o key] = to_be_bytes(num) ELSE num = 0
\* the slot of physical index i holds the bytes ser.val
SlotHolds(sto, slice, i, ser) == storage_get(sto, slice \o to_be_bytes(i)) = Some(ser.val)

C22_DequeLayout ==
    /\ Holds(storage, dq_as_slice(dq), LEN_KEY, Len(dq_abs))
    /\ Holds(storage, dq_as_slice(dq), OFFSET_KEY, DqOff)
    /\ \A p \in 0..(Len(dq_abs) - 1) :
           SlotHolds(storage, dq_as_slice(dq), wrapping_add(DqOff, p),
                     Json_serialize(dq_abs[p + 1]))
C22_AppendLayout ==
    /\ Holds(storage, ap_as_slice(ap), LEN_KEY, Len(ap_abs))
    /\ \A p \in 0..(Len(ap_abs) - 1) :
           SlotHolds(storage, ap_as_slice(ap), p, Borsh_serialize(ap_abs[p + 1]))
Iterating == driven \in {"dq_iter", "ap_iter"} /\ cursor.some
\* start + n and end - n, kept within u32, for n a usize
advanced(start, n) == IF n.over THEN U32_MAX ELSE saturating_add(start, n.lo)
retreated(end, n) == IF n.over THEN 0 ELSE saturating_sub(end, n.lo)
\* the item of the last of n + 1 next() calls; once None is returned the calls
\* after it return None as well
RECURSIVE nth_by_next(_, _, _, _, _)
nth_by_next_rest(kind, r, n) ==
    IF r.item = <<>> \/ n = 0 THEN r.item ELSE nth_by_next(kind, r.sto, r.h, r.it, n - 1)
nth_by_next(kind, sto, h, it, n) == nth_by_next_rest(kind, iter_next(kind, sto, h, it), n)
RECURSIVE nth_by_next_back(_, _, _, _, _)
nth_by_next_back_rest(kind, r, n) ==
    IF r.item = <<>> \/ n = 0 THEN r.item
    ELSE nth_by_next_back(kind, r.sto, r.h, r.it, n - 1)
nth_by_next_back(kind, sto, h, it, n) ==
    nth_by_next_back_rest(kind, iter_next_back(kind, sto, h, it), n)
\* a count of calls no store of the model has the elements for
Calls(n) == IF n.over THEN MaxI32 ELSE n.lo

C23_NthOf(kind, sto, h, it, n) ==
    /\ iter_nth(kind, sto, h, it, as_u32(n))
         = iter_next(kind, sto, h, [it EXCEPT !.start = advanced(it.start, n)])
    /\ iter_nth(kind, sto, h, it, as_u32(n)).sto = sto
    /\ iter_nth(kind, sto, h, it, as_u32(n)).item = nth_by_next(kind, sto, h, it, Calls(n))
C23_NthBackOf(kind, sto, h, it, n) ==
    /\ iter_nth_back(kind, sto, h, it, as_u32(n))
         = iter_next_back(kind, sto, h, [it EXCEPT !.end = retreated(it.end, n)])
    /\ iter_nth_back(kind, sto, h, it, as_u32(n)).sto = sto
\* the claim for the skips below 2^32
C23_NthWithinU32 ==
    Iterating =>
        \A n \in {k \in SkipsCalled : ~k.over} :
            /\ C23_NthOf(Iterated, storage, IterHandle, cursor.v, n)
            /\ C23_NthBackOf(Iterated, storage, IterHandle, cursor.v, n)
\* C23: the claim for every skip
C23_Nth ==
    Iterating =>
        \A n \in SkipsCalled :
            /\ C23_NthOf(Iterated, storage, IterHandle, cursor.v, n)
            /\ C23_NthBackOf(Iterated, storage, IterHandle, cursor.v, n)
\* nth(2^32) on a fresh iterator of three elements returns the first of them
C23_NthTruncates ==
    /\ driven = "dq_iter"
    /\ cursor = Some([start |-> 0, end |-> 3])
    /\ iter_nth("dq", storage, dq, cursor.v, as_u32(usize(0, TRUE))).item
         = <<Ok(<<dq_abs[1]>>)>>

(***************************************************************************)
(* C24.  size_hint reports the number of items the remaining next() or     *)
(* next_back() calls yield, end - start, so that iter().skip(n).rev()      *)
(* yields the last len - n elements in reverse order and                   *)
(* iter().rev().skip(n) the first len - n elements in reverse order.       *)
(***************************************************************************)
\* the results next_back() yields until None, for either store
RECURSIVE DrainedBack(_, _, _, _)
DrainedBackRest(kind, n) ==
    IF n.item = <<>> THEN <<>> ELSE <<n.item[1]>> \o DrainedBack(kind, n.sto, n.h, n.it)
DrainedBack(kind, sto, h, it) == DrainedBackRest(kind, iter_next_back(kind, sto, h, it))

\* Skip::size_hint: the inner size_hint less n, not below 0
skip_size_hint_less(hint, n) ==
    IF ~hint.ok THEN hint
    ELSE IF n.over THEN Ok(<<0>>) ELSE Ok(<<saturating_sub(hint.val[1], n.lo)>>)
skip_size_hint(kind, it, n, checks) == skip_size_hint_less(iter_size_hint(kind, it, checks), n)
\* Rev<Skip<I>>::next until None: Skip::next_back calls the inner next_back()
\* while its own len() is above 0
RECURSIVE skip_rev(_, _, _, _, _, _)
skip_rev_rest(kind, r, n, checks) ==
    IF r.item = <<>> THEN <<>>
    ELSE <<r.item[1]>> \o skip_rev(kind, r.sto, r.h, r.it, n, checks)
skip_rev_some(kind, sto, h, it, n, checks, hint) ==
    IF ~hint.ok THEN <<hint>>
    ELSE IF hint.val[1] = 0 THEN <<>>
    ELSE skip_rev_rest(kind, iter_next_back(kind, sto, h, it), n, checks)
skip_rev(kind, sto, h, it, n, checks) ==
    skip_rev_some(kind, sto, h, it, n, checks, skip_size_hint(kind, it, n, checks))
\* Skip<Rev<I>>::next until None: the first call is nth(n) of Rev, which is
\* nth_back(n) of the iterator, the calls after it are next_back()
rev_skip(kind, sto, h, it, n) ==
    DrainedBackRest(kind, iter_nth_back(kind, sto, h, it, as_u32(n)))

Reverse(s) == [p \in 1..Len(s) |-> s[Len(s) + 1 - p]]
\* how many elements of s are left when n are skipped
Left(s, n) == IF n.over \/ u32_gt(n.lo, Len(s)) THEN 0 ELSE Len(s) - n.lo
SkipsCollected == {usize(k, FALSE) : k \in 0..(MaxSlots + 1)}

\* size_hint of the cursor it is the number of items either walk of it yields
C24_Exact(kind, sto, h, it) ==
    \A checks \in BOOLEAN :
        /\ iter_size_hint(kind, it, checks) = Ok(<<Len(Drained(kind, sto, h, it))>>)
        /\ iter_size_hint(kind, it, checks) = Ok(<<Len(DrainedBack(kind, sto, h, it))>>)
\* the two compositions on the fresh iterator i of the elements s
C24_Composed(kind, i, s, n) ==
    /\ \A checks \in BOOLEAN :
           skip_rev(kind, i.sto, i.h, i.res.val[1], n, checks)
               = OkSeq(Reverse(SubSeq(s, Len(s) - Left(s, n) + 1, Len(s))))
    /\ rev_skip(kind, i.sto, i.h, i.res.val[1], n) = OkSeq(Reverse(SubSeq(s, 1, Left(s, n))))
\* the claim on the cursors with start at or before end, and for n below 2^32
C24_SizeHintWithinEnd ==
    /\ Iterating /\ ~u32_gt(cursor.v.start, cursor.v.end)
           => C24_Exact(Iterated, storage, IterHandle, cursor.v)
    /\ One => \A n \in SkipsCollected :
                  C24_Composed(driven, iter(driven, storage, HandleOf("first")), Abs(driven), n)
\* C24: the claim on every cursor
C24_SizeHint ==
    /\ Iterating => C24_Exact(Iterated, storage, IterHandle, cursor.v)
    /\ One => \A n \in SkipsCollected :
                  C24_Composed(driven, iter(driven, storage, HandleOf("first")), Abs(driven), n)
\* after nth(2) on the iterator of one element no item is left, and size_hint
\* reports 2^32 - 1 items or panics
C24_SizeHintPastEnd ==
    /\ driven = "dq_iter"
    /\ cursor = Some([start |-> 2, end |-> 1])
    /\ Drained("dq", storage, dq, cursor.v) = <<>>
    /\ dq_iter_size_hint(cursor.v, FALSE) = Ok(<<U32_MAX>>)
    /\ dq_iter_size_hint(cursor.v, TRUE) = Err("panic")
\* iter().skip(1).rev() and iter().rev().skip(1) on four elements under a wrapped offset
C24_Witness ==
    /\ driven = "dq"
    /\ Len(dq_abs) = 4
    /\ dq_abs[1] # dq_abs[4]
    /\ Wrapped(DqOff)
    /\ skip_rev("dq", storage, dq, [start |-> 0, end |-> 4], usize(1, FALSE), TRUE)
           = OkSeq(<<dq_abs[4], dq_abs[3], dq_abs[2]>>)
    /\ rev_skip("dq", storage, dq, [start |-> 0, end |-> 4], usize(1, FALSE))
           = OkSeq(<<dq_abs[3], dq_abs[2], dq_abs[1]>>)

(***************************************************************************)
(* C25.  No operation of a store removes an entry of the substrate: the    *)
(* set of keys never shrinks.  pop, pop_back, pop_front and clear leave    *)
(* every element slot as it was, remove leaves the slot it vacates as it   *)
(* was, and a slot outside the positions of the store keeps its bytes      *)
(* until a push or a shift writes it again.                                *)
(***************************************************************************)
\* the calls that read: none of them writes to the substrate
Unwritten(r) == r.sto = storage
NoReadWrites(h) ==
    /\ Unwritten(get_len(storage, h))
    /\ Unwritten(is_empty(storage, h))
    /\ Unwritten(iter(Kind, storage, h))
    /\ \A pos \in Positions : Unwritten(get_at(Kind, storage, h, pos))
    /\ One => \A a \in PagesCalled, build \in Builds : 
               Unwritten(Paged(driven, a[1], a[2], build))
\* Kept holds of the outcome of every call through h that writes
EveryWrite(h, Kept(_)) ==
    /\ \A r \in CallsOf(h) : Kept(r)
    /\ Kept(IF Deque THEN dq_clear(storage, h) ELSE ap_clear(storage, h))
    /\ \A pos \in Positions, x \in Values :
           Kept(IF Deque THEN dq_set_at(storage, h, pos, x) ELSE ap_set_at(storage, h, pos, x))
\* the calls that only take elements away
Vacating(h) ==
    IF Deque THEN {dq_pop_back(storage, h), dq_pop_front(storage, h), dq_clear(storage, h)}
    ELSE {ap_pop(storage, h), ap_clear(storage, h)}
\* the element slots behind the positions 0 .. len - 1 of the store
Live(sto, h) ==
    { as_slice(h) \o to_be_bytes(wrapping_add(get_off(sto, h).val[1], p)) :
          p \in 0..(get_len(sto, h).res.val[1] - 1) }
SameBytes(sto, keys) == \A k \in keys : k \in DOMAIN sto /\ sto[k] = storage[k]

\* the keys of the substrate are present after the call
C25_KeysKept(r) == DOMAIN storage \subseteq DOMAIN r.sto
\* the slots outside the store after the call have their bytes
C25_VacatedKept(r) == SameBytes(r.sto, ElementKeys(storage) \ Live(r.sto, r.h))
C25_Kept(r) == C25_KeysKept(r) /\ (~Two => C25_VacatedKept(r))
C25_NoDelete ==
    /\ \A h \in HandlesHeld : NoReadWrites(h) /\ EveryWrite(h, C25_Kept)
    /\ ~Two => \A r \in Vacating(HandleOf("first")) : SameBytes(r.sto, ElementKeys(storage))
\* two elements under a wrapped offset with three slots left behind: remove(0),
\* pop_back and clear keep the five slots, and the slot of the first element
\* keeps its bytes when the element is removed
C25_Witness ==
    /\ driven = "dq"
    /\ Len(dq_abs) = 2
    /\ Wrapped(DqOff)
    /\ Cardinality(ElementKeys(storage)) = MaxSlots
    /\ dq_remove(storage, dq, 0).res = Ok(<<dq_abs[1]>>)
    /\ SlotAt(dq_remove(storage, dq, 0).sto, DqOff, 0) = Some(Json_serialize(dq_abs[1]).val)
    /\ ElementKeys(dq_pop_back(storage, dq).sto) = ElementKeys(storage)
    /\ dq_clear(storage, dq).sto # storage
    /\ ElementKeys(dq_clear(storage, dq).sto) = ElementKeys(storage)

(***************************************************************************)
(* C26.  A push writes one element slot, that of the new element, and the  *)
(* counters; a pop writes no element slot, only the counters.  No element  *)
(* already stored is moved, whatever the length and the offset.            *)
(***************************************************************************)
\* the call wrote the keys `keys` and nothing else
WroteOnly(r, keys) ==
    /\ DOMAIN r.sto = DOMAIN storage \cup keys
    /\ \A k \in DOMAIN storage \ keys : r.sto[k] = storage[k]
DqSlot(i) == dq_as_slice(dq) \o to_be_bytes(i)
DqLenKey == dq_as_slice(dq) \o LEN_KEY
DqOffKey == dq_as_slice(dq) \o OFFSET_KEY
ApSlot(i) == ap_as_slice(ap) \o to_be_bytes(i)
ApLenKey == ap_as_slice(ap) \o LEN_KEY

C26_DequePushed(r, slot, counters, item) ==
    /\ r.res = Ok(<<>>)
    /\ WroteOnly(r, {DqSlot(slot)} \cup counters)
    /\ r.sto[DqSlot(slot)] = Json_serialize(item).val
C26_DequePopped(r, counters) ==
    IF dq_abs = <<>> THEN ~r.res.ok /\ r.sto = storage
    ELSE r.res.ok /\ WroteOnly(r, counters)
C26_Deque ==
    /\ \A x \in Values :
           /\ C26_DequePushed(dq_push_back(storage, dq, x), wrapping_add(DqOff, DqLen),
                              {DqLenKey}, x)
           /\ C26_DequePushed(dq_push_front(storage, dq, x), wrapping_sub(DqOff, 1),
                              {DqLenKey, DqOffKey}, x)
    /\ C26_DequePopped(dq_pop_back(storage, dq), {DqLenKey})
    /\ C26_DequePopped(dq_pop_front(storage, dq), {DqLenKey, DqOffKey})
C26_AppendPushed(r, item) ==
    /\ r.res = Ok(<<>>)
    /\ WroteOnly(r, {ApSlot(ApLen), ApLenKey})
    /\ r.sto[ApSlot(ApLen)] = Borsh_serialize(item).val
C26_AppendPopped(r) ==
    IF ap_abs = <<>> THEN ~r.res.ok /\ r.sto = storage
    ELSE r.res.ok /\ WroteOnly(r, {ApLenKey})
C26_Append ==
    /\ \A x \in Values : C26_AppendPushed(ap_push(storage, ap, x), x)
    /\ C26_AppendPopped(ap_pop(storage, ap))
C26_EndsInPlace ==
    /\ driven = "dq" => C26_Deque
    /\ driven = "ap" => C26_Append
\* three elements under a wrapped offset, slots left behind on both sides:
\* push_front(2) writes the slot before the offset and the two counters
C26_Witness ==
    /\ driven = "dq"
    /\ dq_abs = <<1, 1, 1>>
    /\ Wrapped(DqOff)
    /\ SlotAt(storage, DqOff, 3) # None
    /\ SlotAt(storage, DqOff, U32_MAX) = Some(Json_serialize(1).val)
    /\ SlotAt(dq_push_front(storage, dq, 2).sto, DqOff, U32_MAX) = Some(Json_serialize(2).val)
    /\ C26_DequePushed(dq_push_front(storage, dq, 2), wrapping_sub(DqOff, 1),
                       {DqLenKey, DqOffKey}, 2)
    /\ C26_DequePopped(dq_pop_front(storage, dq), {DqLenKey, DqOffKey})

(***************************************************************************)
(* C27.  remove(pos) rewrites the element slots between pos and one tip    *)
(* only.  With len - pos < pos these are the len - 1 - pos slots of the    *)
(* positions pos .. len - 2; otherwise they are the pos slots of the       *)
(* positions 1 .. pos.  The first element is removed with no slot          *)
(* rewritten, and so is the last one of three elements or more.            *)
(***************************************************************************)
\* the element slots whose bytes the call changed
Changed(r) == {k \in ElementKeys(storage) : r.sto[k] # storage[k]}
\* the slots of the positions from .. to under the offset before the call
SlotsOf(from, to) == {DqSlot(wrapping_add(DqOff, p)) : p \in from..to}
\* no two neighbours of s are equal: every shift of s is seen in the bytes
Alternating(s) == \A p \in 1..(Len(s) - 1) : s[p] # s[p + 1]
\* the slots remove(pos) writes in its loop
Rewritten(len, pos) ==
    IF len - pos < pos THEN SlotsOf(pos, len - 2) ELSE SlotsOf(1, pos)
Min(a, b) == IF a < b THEN a ELSE b

C27_Removed(r, len, pos) ==
    /\ r.res.ok
    /\ ElementKeys(r.sto) = ElementKeys(storage)
    /\ Changed(r) \subseteq Rewritten(len, pos)
    /\ Alternating(dq_abs) => Changed(r) = Rewritten(len, pos)
    /\ Cardinality(Rewritten(len, pos)) = (IF len - pos < pos THEN len - 1 - pos ELSE pos)
C27_LastOfTwo ==
    /\ driven = "dq"
    /\ dq_abs = <<1, 2>>
    /\ Changed(dq_remove(storage, dq, 1)) = SlotsOf(1, 1)
    /\ OffAfter(dq_remove(storage, dq, 1)) = wrapping_add(DqOff, 1)

(***************************************************************************)
(* C28.  The offset of a DequeStore moves as follows: a push_front sets    *)
(* the persisted and the cached offset to (offset - 1) mod 2^32, a         *)
(* pop_front and a head-ward remove that succeed to (offset + 1) mod 2^32, *)
(* clear to 0.  push_back, pop_back, set_at, a tail-ward remove, get_at,   *)
(* iter, paging and the calls that fail leave the persisted offset as it   *)
(* is, and the cached one as it is or filled in with the persisted value.  *)
(***************************************************************************)
\* the call set the persisted and the cached offset to `to`
C28_Moved(r, to) ==
    /\ storage_get(r.sto, DqOffKey) = Some(to_be_bytes(to))
    /\ r.h.offset = Some(to)
\* the call left the key, and the cache but for reading the offset into it
C28_Kept(r) ==
    /\ storage_get(r.sto, DqOffKey) = storage_get(storage, DqOffKey)
    /\ r.h.offset \in {dq.offset, Some(DqOff)}
\* the call left the key and the cache
C28_Untouched(r) ==
    /\ storage_get(r.sto, DqOffKey) = storage_get(storage, DqOffKey)
    /\ r.h.offset = dq.offset
C28_Popped(r) ==
    IF dq_abs = <<>> THEN ~r.res.ok /\ C28_Kept(r)
    ELSE r.res.ok /\ C28_Moved(r, wrapping_add(DqOff, 1))
C28_Removed(r, len, pos) ==
    IF u32_ge(pos, len) THEN ~r.res.ok /\ C28_Kept(r)
    ELSE IF len - pos < pos THEN r.res.ok /\ C28_Kept(r)
    ELSE r.res.ok /\ C28_Moved(r, wrapping_add(DqOff, 1))
\* Kept holds of every call that is to leave the offset
C28_Leaving(Kept(_)) ==
    /\ \A x \in Values : Kept(dq_push_back(storage, dq, x))
    /\ Kept(dq_pop_back(storage, dq))
    /\ \A pos \in Positions :
           /\ Kept(dq_get_at(storage, dq, pos))
           /\ \A x \in Values : Kept(dq_set_at(storage, dq, pos, x))
           /\ Len(dq_abs) - pos < pos => Kept(dq_remove(storage, dq, pos))
    /\ Kept(dq_iter(storage, dq))
    /\ \A a \in PagesCalled, build \in Builds : Kept(Paged("dq", a[1], a[2], build))
C28_Hydrated ==
    /\ driven = "dq"
    /\ Len(dq_abs) = 3
    /\ Wrapped(DqOff)
    /\ Unhydrated(dq).offset = None
    /\ dq_push_back(storage, Unhydrated(dq), 1).h.offset = Some(DqOff)

(***************************************************************************)
(* C29.  When push_front(item) returns an error because the item does not  *)
(* serialize, the store is as before the call: the persisted offset and    *)
(* length, the cached ones, and the element every position returns.        *)
(***************************************************************************)
\* the call left the counters: the keys, and the caches but for reading into them
C29_CountersKept(r) ==
    /\ storage_get(r.sto, DqOffKey) = storage_get(storage, DqOffKey)
    /\ storage_get(r.sto, DqLenKey) = storage_get(storage, DqLenKey)
    /\ r.h.offset \in {dq.offset, Some(DqOff)}
    /\ r.h.length \in {dq.length, Some(DqLen)}
C29_Unchanged(r) ==
    /\ C29_CountersKept(r)
    /\ \A pos \in Positions : dq_get_at(r.sto, r.h, pos).res = dq_get_at(storage, dq, pos).res
C29_PushFrontFails ==
    driven = "dq" =>
        /\ dq_push_front(storage, dq, Unserializable).res = Err("serialize_err")
        /\ C29_Unchanged(dq_push_front(storage, dq, Unserializable))
\* the failed push_front on [a, b] at the offset 0 leaves the offset at
\* 2^32 - 1 and the length at 2: position 1 returns a, position 0 nothing
C29_OffsetMovedOnError ==
    /\ driven = "dq"
    /\ Len(dq_abs) = 2
    /\ dq_abs[1] # dq_abs[2]
    /\ DqOff = 0
    /\ SlotAt(storage, 0, U32_MAX) = None
    /\ dq_push_front(storage, dq, Unserializable).res = Err("serialize_err")
    /\ C28_Moved(dq_push_front(storage, dq, Unserializable), U32_MAX)
    /\ LenAfter(dq_push_front(storage, dq, Unserializable)) = 2
    /\ ViewAfter(dq_push_front(storage, dq, Unserializable))
           = <<Err("not_found"), Ok(<<dq_abs[1]>>)>>

(***************************************************************************)
(* C30.  When pop, pop_back or pop_front returns an error, whatever the    *)
(* reason, a failure to read the end slot of a store that is not empty     *)
(* included, the persisted length and offset are as before the call, and   *)
(* so are the cached ones.                                                 *)
(***************************************************************************)
\* the pops through h
Pops(h) ==
    IF Deque THEN {dq_pop_back(storage, h), dq_pop_front(storage, h)} ELSE {ap_pop(storage, h)}
\* the call through h left the counters: the keys, and the caches but for
\* reading into them
C30_CountersKept(r, h) ==
    /\ storage_get(r.sto, as_slice(h) \o LEN_KEY) = storage_get(storage, as_slice(h) \o LEN_KEY)
    /\ storage_get(r.sto, as_slice(h) \o OFFSET_KEY)
           = storage_get(storage, as_slice(h) \o OFFSET_KEY)
    /\ r.h.length \in {h.length, get_len(storage, h).h.length}
    /\ Deque => r.h.offset \in {h.offset, dq_get_off(storage, h).h.offset}
C30_PopFails ==
    \A h \in HandlesHeld : \A r \in Pops(h) : ~r.res.ok => C30_CountersKept(r, h)
\* the claim where the pop fails on the empty store
C30_PopFailsOnEmpty ==
    \A h \in HandlesHeld :
        \A r \in Pops(h) : r.res = Err("empty") => C30_CountersKept(r, h)
\* the second handle has cached the length 3 and not the offset; the first
\* has since removed the three elements from the head.  pop_back through the
\* second reads the slot 5, which was never written, returns the error and
\* sets the persisted length to 2
C30_LengthMovedOnError ==
    /\ driven = "dq_two"
    /\ as_slice(second) = as_slice(dq)
    /\ second.length = Some(3)
    /\ second.offset = None
    /\ storage_get(storage, DqLenKey) = Some(to_be_bytes(0))
    /\ storage_get(storage, DqOffKey) = Some(to_be_bytes(3))
    /\ dq_pop_back(storage, second).res = Err("not_found")
    /\ storage_get(dq_pop_back(storage, second).sto, DqLenKey) = Some(to_be_bytes(2))
    /\ dq_pop_back(storage, second).h.length = Some(2)

(***************************************************************************)
(* C31.  When remove(pos) of either store returns an error, the sequence   *)
(* is as before the call: no element is shifted, doubled or dropped, and   *)
(* the length and the offset are as they were, also when the read of the   *)
(* target or of an element to shift is what fails.                         *)
(***************************************************************************)
remove(sto, h, pos) == IF Deque THEN dq_remove(sto, h, pos) ELSE ap_remove(sto, h, pos)
\* the call through h wrote nothing, and left the caches but for reading into them
C31_Unchanged(r, h) ==
    /\ r.sto = storage
    /\ r.h.length \in {h.length, get_len(storage, h).h.length}
    /\ Deque => r.h.offset \in {h.offset, dq_get_off(storage, h).h.offset}
C31_RemoveFails ==
    \A h \in HandlesHeld :
        \A pos \in Positions :
            ~remove(storage, h, pos).res.ok => C31_Unchanged(remove(storage, h, pos), h)
\* the claim where remove fails on the bounds test
C31_RemoveFailsOutOfBounds ==
    \A h \in HandlesHeld :
        \A pos \in Positions :
            remove(storage, h, pos).res = Err("out_of_bounds")
                => C31_Unchanged(remove(storage, h, pos), h)
\* the first handle has cached the length 1 and not the offset; the second
\* has since removed the element, which moved the offset to 1.  remove(0)
\* through the first reads the slot 1, which was never written, returns the
\* error, and has set the offset to 2 and the length to 0
C31_CountersMovedOnError ==
    /\ driven = "dq_two"
    /\ as_slice(second) = as_slice(dq)
    /\ dq.length = Some(1)
    /\ dq.offset = None
    /\ storage_get(storage, DqLenKey) = Some(to_be_bytes(0))
    /\ storage_get(storage, DqOffKey) = Some(to_be_bytes(1))
    /\ dq_remove(storage, dq, 0).res = Err("not_found")
    /\ storage_get(dq_remove(storage, dq, 0).sto, DqOffKey) = Some(to_be_bytes(2))
    /\ dq_remove(storage, dq, 0).h.length = Some(0)

(***************************************************************************)
(* C32.  After any sequence of next, next_back, nth(n) and nth_back(n)     *)
(* calls on an iterator iter() returned, start <= end <= len, and the      *)
(* subtraction end - start of size_hint does not underflow.                *)
(***************************************************************************)
IterLen == get_len(storage, IterHandle).res.val[1]
C32_CursorInBounds ==
    Iterating =>
        /\ ~u32_gt(cursor.v.start, cursor.v.end)
        /\ ~u32_gt(cursor.v.end, IterLen)
        /\ \A checks \in BOOLEAN : iter_size_hint(Iterated, cursor.v, checks).ok
\* the part of the claim that holds: end stays at or below the length
C32_EndWithinLen == Iterating => ~u32_gt(cursor.v.end, IterLen)
\* nth(2^32 - 1) on the iterator of three elements leaves start at 2^32 - 1, past end
C32_StartPastEnd ==
    /\ driven = "ap_iter"
    /\ Len(ap_abs) = 3
    /\ cursor = Some([start |-> U32_MAX, end |-> 3])
    /\ ap_iter_size_hint(cursor.v, TRUE) = Err("panic")

(***************************************************************************)
(* C33.  A push that succeeds increases get_len() by 1.  At the length     *)
(* 2^32 - 1 a push does not succeed: the length is not wrapped to 0.       *)
(***************************************************************************)
\* `len + 1` of the pushes under the build: with overflow checks it panics at
\* 2^32 - 1, after the element has been written; without them it wraps
push_built(r, len, checks) ==
    IF checks /\ len = U32_MAX THEN Out(r.sto, r.h, Err("panic")) ELSE r
\* the store with the length 2^32 - 1 persisted, and a handle that has yet to read it
Full == storage_set(storage, as_slice(HandleOf("first")) \o LEN_KEY, to_be_bytes(U32_MAX))
PushesOf(sto, h, x) ==
    IF Deque THEN {dq_push_back(sto, h, x), dq_push_front(sto, h, x)} ELSE {ap_push(sto, h, x)}
len_after(r) == get_len(r.sto, r.h).res.val[1]

\* below 2^32 - 1: the pushes of every reachable state count one element more
C33_PushAddsOne ==
    ~Two =>
        \A x \in Values, checks \in BOOLEAN :
            \A r \in PushesOf(storage, HandleOf("first"), x) :
                /\ push_built(r, len_after(get_len(storage, HandleOf("first"))), checks).res.ok
                /\ len_after(r) = len_after(get_len(storage, HandleOf("first"))) + 1
\* C33: and at 2^32 - 1 no push succeeds, whatever the build
C33_PushCounts ==
    ~Two =>
        /\ C33_PushAddsOne
        /\ \A x \in Values, checks \in BOOLEAN :
               \A r \in PushesOf(Full, Unhydrated(HandleOf("first")), x) :
                   ~push_built(r, U32_MAX, checks).res.ok
\* without overflow checks push_back at the length 2^32 - 1 returns Ok and
\* the length read afterwards is 0: get_at(0) is out of bounds
C33_LengthWraps ==
    /\ driven = "dq"
    /\ Len(dq_abs) = 2
    /\ push_built(dq_push_back(Full, Unhydrated(dq), 1), U32_MAX, FALSE).res = Ok(<<>>)
    /\ LenAfter(dq_push_back(Full, Unhydrated(dq), 1)) = 0
    /\ dq_get_at(dq_push_back(Full, Unhydrated(dq), 1).sto,
                 dq_push_back(Full, Unhydrated(dq), 1).h, 0).res = Err("out_of_bounds")

(***************************************************************************)
(* C34.  Through one handle, in every reachable state of a DequeStore, two *)
(* positions p # q below the length have the physical indices              *)
(* (offset + p) mod 2^32 # (offset + q) mod 2^32, whatever the offset,     *)
(* wrapped ones included; the slot a push at either end writes is the slot *)
(* of no position below the length, and the elements stay as they were.    *)
(***************************************************************************)
\* the physical index get_offset_pos computes for pos
Physical(pos) == dq_get_offset_pos(storage, dq, pos).res.val[1]
C34_Injective ==
    driven = "dq" =>
        /\ \A p, q \in 0..(Len(dq_abs) - 1) : p # q => Physical(p) # Physical(q)
        /\ \A p \in 0..(Len(dq_abs) - 1) :
               /\ Physical(p) # Physical(Len(dq_abs))
               /\ Physical(p) # wrapping_sub(DqOff, 1)
        /\ \A x \in Values :
               /\ ViewAfter(dq_push_back(storage, dq, x)) = OkSeq(Append(dq_abs, x))
               /\ ViewAfter(dq_push_front(storage, dq, x)) = OkSeq(<<x>> \o dq_abs)
               /\ Changed(dq_push_back(storage, dq, x)) \cap Live(storage, dq) = {}
               /\ Changed(dq_push_front(storage, dq, x)) \cap Live(storage, dq) = {}
\* five elements across the wrap: the offset is 2^32 - 2, the physical indices
\* are 2^32 - 2, 2^32 - 1, 0, 1, 2, and the pushes write the slots 3 and 2^32 - 3
C34_Witness ==
    /\ driven = "dq"
    /\ Len(dq_abs) = 5
    /\ DqOff = -2
    /\ [p \in 0..4 |-> Physical(p)] = [p \in 0..4 |-> p - 2]
    /\ Physical(5) = 3
    /\ DqSlot(3) \in DOMAIN dq_push_back(storage, dq, 1).sto
    /\ DqSlot(-3) \in DOMAIN dq_push_front(storage, dq, 1).sto

(***************************************************************************)
(* C35.  paging(p, s) returns the empty list whenever p * s >= len, and at *)
(* most len - p * s elements otherwise, for every 32-bit p and s, the      *)
(* products of 2^32 and more included: the count skipped is p * s, not     *)
(* p * s mod 2^32.                                                         *)
(***************************************************************************)
\* the page r of a sequence of len elements for the product n
C35_Bounded(r, len, n) ==
    IF n.over \/ u32_ge(n.lo, len) THEN r = Ok(<< <<>> >>)
    ELSE r.ok /\ Len(r.val[1]) <= len - n.lo
\* the claim for the products below 2^32
C35_PagingBoundsWithin ==
    One =>
        \A build \in Builds, a \in PagesWithin :
            C35_Bounded(Paged(driven, a[1], a[2], build).res, Len(Abs(driven)),
                        usize_mul(a[1], a[2]))
\* C35: the claim for every product
C35_PagingBounds ==
    One =>
        \A build \in Builds, a \in PageArgs :
            C35_Bounded(Paged(driven, a[1], a[2], build).res, Len(Abs(driven)),
                        usize_mul(a[1], a[2]))
\* on two elements paging(641, 6700417), the product 2^32 + 1, returns the
\* second element where usize has 64 bits and where it has 32 and wraps
C35_ProductReduced ==
    /\ driven = "ap"
    /\ Len(ap_abs) = 2
    /\ usize_mul(641, 6700417) = usize(1, TRUE)
    /\ \A build \in {b \in Builds : b.usize # "32_checked"} :
           ap_paging(storage, ap, 641, 6700417, build).res = Ok(<< <<ap_abs[2]>> >>)

(***************************************************************************)
(* C36.  Two handles on one namespace, both with a cached length, push one *)
(* after the other.  Each push takes the length from its own cache, writes *)
(* the element at that position and persists that length plus one.         *)
(***************************************************************************)
\* both handles of the scenario stand on one namespace and have read the length
SharedHydrated(a, b) ==
    /\ as_slice(a) = as_slice(b)
    /\ a.length.some
    /\ b.length.some
\* a and b see the sequence alike: same cached length, same offset as persisted
SeenAlike(a, b) ==
    /\ a.length = b.length
    /\ get_off(storage, a) = get_off(storage, b)
    /\ get_off(storage, b) = get_off(storage, Unhydrated(b))
\* a pushed x (outcome p1), then b pushed y (outcome p2): both elements kept
C36_BothKept(b, x, y, p2) ==
    /\ PersistedLen(p2.sto, b) = Ok(<<wrapping_add(PersistedLen(storage, b).val[1], 2)>>)
    /\ get_at(Kind, p2.sto, Unhydrated(b), PersistedLen(storage, b).val[1]).res = Ok(<<x>>)
    /\ get_at(Kind, p2.sto, Unhydrated(b), wrapping_add(PersistedLen(storage, b).val[1], 1)).res
           = Ok(<<y>>)
\* a pushed x, then b pushed y (outcome p2): only b's push is left
C36_SecondKept(b, y, p2) ==
    /\ p2.sto = push(storage, b, y).sto
    /\ PersistedLen(p2.sto, b) = Ok(<<wrapping_add(b.length.v, 1)>>)
    /\ get_at(Kind, p2.sto, Unhydrated(b), b.length.v).res = Ok(<<y>>)
C36_Pushed(a, b, x, y) == push(push(storage, a, x).sto, b, y)
C36_BothPushed(a, b, x, y) ==
    /\ SharedHydrated(a, b)
    /\ PersistedLen(storage, b).ok
    /\ push(storage, a, x).res.ok
    /\ C36_Pushed(a, b, x, y).res.ok

\* C36 as stated: when two handles on one namespace with hydrated caches each
\* push successfully, the persisted length is the old length plus 2 and a
\* fresh handle reads both pushed elements.
C36_NoPushLost ==
    Two =>
        \A who \in Handles, x \in Values, y \in Values :
            C36_BothPushed(HandleOf(who), HandleOf(Other(who)), x, y) =>
                C36_BothKept(HandleOf(Other(who)), x, y,
                             C36_Pushed(HandleOf(who), HandleOf(Other(who)), x, y))

\* C36: when two handles on one namespace that have cached the same length and
\* see the persisted offset each push successfully, the second push replaces
\* the first: the substrate is the one the second push alone would leave, the
\* persisted length is the cached length plus 1 and a fresh handle reads the
\* second element at the cached length.
C36_SecondPushWins ==
    Two =>
        \A who \in Handles, x \in Values, y \in Values :
            (/\ C36_BothPushed(HandleOf(who), HandleOf(Other(who)), x, y)
             /\ SeenAlike(HandleOf(who), HandleOf(Other(who)))) =>
                C36_SecondKept(HandleOf(Other(who)), y,
                               C36_Pushed(HandleOf(who), HandleOf(Other(who)), x, y))

\* both handles hold the persisted length 1; the first pushes 1, the second 2:
\* the persisted length is 2 and position 1 holds 2
C36_Witness ==
    /\ driven = "ap_two"
    /\ SharedHydrated(ap, second)
    /\ SeenAlike(ap, second)
    /\ ap.length = Some(1)
    /\ PersistedLen(storage, ap) = Ok(<<1>>)
    /\ C36_BothPushed(ap, second, 1, 2)
    /\ PersistedLen(C36_Pushed(ap, second, 1, 2).sto, ap) = Ok(<<2>>)
    /\ get_at(Kind, C36_Pushed(ap, second, 1, 2).sto, Unhydrated(ap), 1).res = Ok(<<2>>)
    /\ get_at(Kind, C36_Pushed(ap, second, 1, 2).sto, Unhydrated(ap), 0).res.ok

(***************************************************************************)
(* C37.  push_front(x) followed at once by pop_front() through the same    *)
(* handle: what the pop returns, and the offset, the length and the        *)
(* elements the handle reads afterwards against those it read before.      *)
(***************************************************************************)
\* pop_front on the outcome p of a push_front
C37_Popped(p) == dq_pop_front(p.sto, p.h)
\* the outcome r restores what h read of the state before the push
C37_Restored(r, h) ==
    /\ OffAfter(r) = dq_off(storage, h)
    /\ LenAfter(r) = dq_len(storage, h)
    /\ ViewAfter(r) = dq_view(storage, h)
    /\ dq_get_off(r.sto, r.h).res.ok
    /\ dq_get_len(r.sto, r.h).res.ok
C37_Pushable(h) ==
    /\ dq_get_len(storage, h).res.ok
    /\ dq_get_off(storage, h).res.ok
    /\ dq_len(storage, h) # U32_MAX

\* C37: in every reachable deque state with a length below 2^32 - 1, for every
\* handle held and every element x, push_front(x) succeeds, the pop_front()
\* that follows returns x, and the offset, the length and the element at every
\* position are afterwards what they were before the push.
C37_PushFrontPopFront ==
    Deque =>
        \A h \in HandlesHeld, x \in Values :
            C37_Pushable(h) =>
                /\ dq_push_front(storage, h, x).res.ok
                /\ C37_Popped(dq_push_front(storage, h, x)).res = Ok(<<x>>)
                /\ C37_Restored(C37_Popped(dq_push_front(storage, h, x)), h)

\* two elements at offset 0: push_front(1) moves the offset to 2^32 - 1 and the
\* length to 3, the pop_front that follows returns 1 and moves them back
C37_Witness ==
    /\ driven = "dq"
    /\ DqOff = 0
    /\ DqLen = 2
    /\ dq_push_front(storage, dq, 1).res.ok
    /\ OffAfter(dq_push_front(storage, dq, 1)) = U32_MAX
    /\ LenAfter(dq_push_front(storage, dq, 1)) = 3
    /\ C37_Popped(dq_push_front(storage, dq, 1)).res = Ok(<<1>>)
    /\ OffAfter(C37_Popped(dq_push_front(storage, dq, 1))) = 0
    /\ LenAfter(C37_Popped(dq_push_front(storage, dq, 1))) = 2
====
